---------------------------- MODULE Spec2Model ----------------------------
(***************************************************************************)
(* A model of funnyboy-roks/jvm: the descriptor parser of the class-files  *)
(* crate, the Heap of the jvm crate, and the interpreter (Jvm::run,        *)
(* run_method, run_code, init_class and handle_op_code).                   *)
(*                                                                         *)
(* Strings are sequences of one-character strings.  Heap indices and       *)
(* frame indices are 0-origin as in the source; the TLA+ sequence that     *)
(* holds them is 1-origin, so cell i of the source is element i + 1.       *)
(***************************************************************************)
EXTENDS Integers, Sequences, FiniteSets, TLC

VARIABLES
    \* ---- class-files/src/descriptors.rs ----
    dstr,       \* the descriptor string handed to MethodDescriptor::from_str
    dres,       \* the Result of from_str: [ok, params, return_value]
    dout,       \* to_string() of the parsed descriptor
    dphase,     \* "input" -> "parsed" -> "printed"
    dexp,       \* what the grammar says of dstr: whether it is well-formed
                \* and, if so, the params and return value it derives
    \* ---- jvm/src/main.rs: Heap ----
    heap,       \* Heap.inner: the cells
    max_size,   \* Heap.max_size
    hlast,      \* the last Heap call made by the heap driver: arguments,
                \* the cells before it and its Result
    \* ---- jvm/src/main.rs: Jvm, and the native call stack under run() ----
    stack,      \* Jvm.stack: the StackFrames
    classes,    \* Jvm.classes: class name -> [initialised]
    calls,      \* the run_code activations of the native call stack
    pcn,        \* where the topmost activation is: "fetch" (at the head of
                \* its loop) or "ret" (its loop has ended, it returns Ok)
    status,     \* "idle", "running", "returned" (run() returned) or "panic"
    jres,       \* what run() returned: "none", "Ok" or "Err"
    \* ---- the input program ----
    code,       \* method id -> [bytes, n, closed]: the bytes of its Code
                \* attribute fetched so far, the number of menu entries in
                \* them, and whether they are all of the code
    menu,       \* the instructions (and runs of instructions) the methods
                \* of the program are made of
    limit,      \* the most menu entries the program has
    \* ---- the build ----
    overflow_checks, \* whether the profile the crate was built with checks
                \* integer overflow (cargo's dev profile) or wraps (release)
    \* ---- observations ----
    last,       \* the last instruction dispatched: its mnemonic, the state
                \* before it and how it ended
    stored,     \* the last successful array store: [ref, index, value]
    ilog,       \* the init_class calls that have returned: [class, ret, why]
    clinit_runs, \* class name -> how often its <clinit> was started
    \* ---- class-files: a class file and its reading ----
    wire,       \* the bytes of the file
    made,       \* what the producer of the file put into it
    class_file, \* what ClassFile::read_from returned for the file
    fres        \* the last call made on the file or the ClassFile: [op, ret]

dvars == <<dstr, dres, dout, dphase, dexp>>

hvars == <<heap, max_size, hlast>>

jvars == <<stack, classes, calls, pcn, status, jres, code, menu, limit, overflow_checks,
           last, stored, ilog, clinit_runs>>

cvars == <<wire, made, class_file, fres>>

vars == <<dstr, dres, dout, dphase, dexp, heap, max_size, hlast, stack, classes, calls,
          pcn, status, jres, code, menu, limit, overflow_checks, last, stored, ilog, clinit_runs,
          wire, made, class_file, fres>>

---------------------------------------------------------------------------
(* Bounds of the model *)

\* longest well-formed descriptor enumerated from the grammar
MaxDescLen == 5

\* longest arbitrary string over the alphabet handed to the parser
MaxStrLen == 4

\* largest Heap.max_size the heap driver is started with
MaxHeapSize == 3

\* longest array the heap driver creates
MaxArrLen == 1

\* deepest call stack (frames) the interpreter is followed to
MaxFrames == 3

\* most instructions of a program in the specification of calls
MaxCallInstrs == 5

---------------------------------------------------------------------------
(***************************************************************************)
(* class-files/src/descriptors.rs                                          *)
(*                                                                         *)
(* A FieldType is a tuple: <<"Byte">>, ..., <<"ObjReference", name>>,      *)
(* <<"ArrReference", ft>>.  A ReturnDescriptor is <<"Void">> or            *)
(* <<"FieldType", ft>>.  A parser result carries the rest of the Chars     *)
(* iterator it was given.                                                  *)
(***************************************************************************)

PErr == [ok |-> FALSE, val |-> <<>>, rest |-> <<>>]

POk(v, rest) == [ok |-> TRUE, val |-> v, rest |-> rest]

\* the `while c != ';'` loop of the 'L' arm: s is the name read so far
RECURSIVE ObjName_loop(_, _)
ObjName_loop(s, chars) ==
    IF chars = <<>> THEN PErr
    ELSE IF Head(chars) = ";" THEN POk(<<"ObjReference", s>>, Tail(chars))
    ELSE ObjName_loop(Append(s, Head(chars)), Tail(chars))

RECURSIVE FieldType_from_chars(_, _)
FieldType_from_chars(id, chars) ==
    CASE id = "B" -> POk(<<"Byte">>, chars)
      [] id = "C" -> POk(<<"Char">>, chars)
      [] id = "D" -> POk(<<"Double">>, chars)
      [] id = "F" -> POk(<<"Float">>, chars)
      [] id = "I" -> POk(<<"Int">>, chars)
      [] id = "J" -> POk(<<"Long">>, chars)
      [] id = "L" -> ObjName_loop(<<>>, chars)
      [] id = "S" -> POk(<<"Short">>, chars)
      [] id = "Z" -> POk(<<"Boolean">>, chars)
      [] id = "[" ->
            IF chars = <<>> THEN PErr
            ELSE LET r == FieldType_from_chars(Head(chars), Tail(chars))
                 IN  IF r.ok THEN POk(<<"ArrReference", r.val>>, r.rest) ELSE PErr
      [] OTHER -> PErr

RECURSIVE FieldType_to_string(_)
FieldType_to_string(ft) ==
    CASE ft[1] = "Byte" -> <<"B">>
      [] ft[1] = "Char" -> <<"C">>
      [] ft[1] = "Double" -> <<"D">>
      [] ft[1] = "Float" -> <<"F">>
      [] ft[1] = "Int" -> <<"I">>
      [] ft[1] = "Long" -> <<"J">>
      [] ft[1] = "ObjReference" -> <<"L">> \o ft[2] \o <<";">>
      [] ft[1] = "Short" -> <<"S">>
      [] ft[1] = "Boolean" -> <<"Z">>
      [] ft[1] = "ArrReference" -> <<"[">> \o FieldType_to_string(ft[2])

\* a variant of ReturnDescriptor::from_chars without the 'V' arm
ReturnDescriptor_from_chars_NoVoid(id, chars) ==
    LET r == FieldType_from_chars(id, chars)
    IN  IF r.ok THEN POk(<<"FieldType", r.val>>, r.rest) ELSE PErr

ReturnDescriptor_from_chars(id, chars) ==
    IF id = "V" THEN POk(<<"Void">>, chars)
    ELSE LET r == FieldType_from_chars(id, chars)
         IN  IF r.ok THEN POk(<<"FieldType", r.val>>, r.rest) ELSE PErr

ReturnDescriptor_to_string(rd) ==
    IF rd[1] = "Void" THEN <<"V">> ELSE FieldType_to_string(rd[2])

MdErr == [ok |-> FALSE, params |-> <<>>, return_value |-> <<>>]

\* the `while id != ')'` loop of from_str: chars is the iterator after id
RECURSIVE Params_loop(_, _, _)
Params_loop(id, chars, params) ==
    IF id = ")" THEN POk(params, chars)
    ELSE LET r == FieldType_from_chars(id, chars)
         IN  IF ~r.ok THEN PErr
             ELSE IF r.rest = <<>> THEN PErr
             ELSE Params_loop(Head(r.rest), Tail(r.rest), Append(params, r.val))

MethodDescriptor_from_str(s) ==
    IF s = <<>> \/ Head(s) # "(" THEN MdErr
    ELSE IF Tail(s) = <<>> THEN MdErr
    ELSE LET p == Params_loop(Head(Tail(s)), Tail(Tail(s)), <<>>)
         IN  IF ~p.ok THEN MdErr
             ELSE IF p.rest = <<>> THEN MdErr
             ELSE LET r == ReturnDescriptor_from_chars(Head(p.rest), Tail(p.rest))
                  IN  IF ~r.ok THEN MdErr
                      ELSE [ok |-> TRUE, params |-> p.val, return_value |-> r.val]

RECURSIVE Params_to_string(_)
Params_to_string(params) ==
    IF params = <<>> THEN <<>>
    ELSE FieldType_to_string(Head(params)) \o Params_to_string(Tail(params))

MethodDescriptor_to_string(md) ==
    <<"(">> \o Params_to_string(md.params) \o <<")">>
        \o ReturnDescriptor_to_string(md.return_value)

---------------------------------------------------------------------------
(***************************************************************************)
(* The descriptor grammar of the class-file format, written as the set of  *)
(* its derivations (string, structure) up to a length:                     *)
(*   FieldType        := B | C | D | F | I | J | S | Z | L<name>; | [FT    *)
(*   ReturnDescriptor := V | FieldType                                     *)
(*   MethodDescriptor := ( FieldType* ) ReturnDescriptor                   *)
(* This is the reference the parser is compared with; it is not used by    *)
(* the parser.                                                             *)
(***************************************************************************)

\* the characters the enumerated descriptor strings are made of
DescAlphabet == {"(", ")", "V", "I", "L", ";", "["}

\* characters of a class name inside L...;
NameChars == DescAlphabet \ {";", "["}

Deriv(s, v) == [str |-> s, val |-> v]

PrimDerivs ==
    { Deriv(<<"B">>, <<"Byte">>), Deriv(<<"C">>, <<"Char">>),
      Deriv(<<"D">>, <<"Double">>), Deriv(<<"F">>, <<"Float">>),
      Deriv(<<"I">>, <<"Int">>), Deriv(<<"J">>, <<"Long">>),
      Deriv(<<"S">>, <<"Short">>), Deriv(<<"Z">>, <<"Boolean">>) }

\* the non-empty names of at most n characters
NameStrs(n) == UNION { [1..k -> NameChars] : k \in 1..n }

\* the FieldType derivations whose string has at most n characters
RECURSIVE FieldTypeDerivs(_)
FieldTypeDerivs(n) ==
    IF n <= 0 THEN {}
    ELSE PrimDerivs
         \cup (IF n >= 3
               THEN { Deriv(<<"L">> \o nm \o <<";">>, <<"ObjReference", nm>>) :
                        nm \in NameStrs(n - 2) }
               ELSE {})
         \cup { Deriv(<<"[">> \o d.str, <<"ArrReference", d.val>>) :
                  d \in FieldTypeDerivs(n - 1) }

\* the FieldType* derivations whose string has at most n characters
RECURSIVE ParamsDerivs(_)
ParamsDerivs(n) ==
    {Deriv(<<>>, <<>>)}
    \cup UNION { { Deriv(d.str \o p.str, <<d.val>> \o p.val) :
                     p \in ParamsDerivs(n - Len(d.str)) } :
                 d \in FieldTypeDerivs(n) }

ReturnDerivs(n) ==
    IF n <= 0 THEN {}
    ELSE {Deriv(<<"V">>, <<"Void">>)}
         \cup { Deriv(d.str, <<"FieldType", d.val>>) : d \in FieldTypeDerivs(n) }

\* the MethodDescriptor derivations whose string has at most n characters
MethodDerivs(n) ==
    UNION { { [str |-> <<"(">> \o p.str \o <<")">> \o r.str,
               params |-> p.val, return_value |-> r.val] :
                r \in ReturnDerivs(n - 2 - Len(p.str)) } :
            p \in ParamsDerivs(n - 3) }

Str_java_lang_Thread ==
    <<"j","a","v","a","/","l","a","n","g","/","T","h","r","e","a","d">>

Str_java_lang_Object ==
    <<"j","a","v","a","/","l","a","n","g","/","O","b","j","e","c","t">>

\* descriptors.rs test::docs_example and test::test2: the string and the
\* value the test expects
ExampleDerivs ==
    { [str |-> <<"(", "I", "D", "L">> \o Str_java_lang_Thread \o <<";", ")", "L">>
                 \o Str_java_lang_Object \o <<";">>,
       params |-> << <<"Int">>, <<"Double">>, <<"ObjReference", Str_java_lang_Thread>> >>,
       return_value |-> <<"FieldType", <<"ObjReference", Str_java_lang_Object>> >>],
      [str |-> <<"(", "[", "[", "B", ")", "V">>,
       params |-> << <<"ArrReference", <<"ArrReference", <<"Byte">> >> >> >>,
       return_value |-> <<"Void">>] }

WellFormedDerivs == MethodDerivs(MaxDescLen) \cup ExampleDerivs

\* every string of at most n characters over the alphabet
AllStrs(n) == UNION { [1..k -> DescAlphabet] : k \in 0..n }

NoDeriv == [wf |-> FALSE, params |-> <<>>, return_value |-> <<>>]

\* the inputs: every well-formed descriptor, whatever its primitive types,
\* with what it derives, and every other string over the alphabet
DescInputs ==
    { <<d.str, [wf |-> TRUE, params |-> d.params, return_value |-> d.return_value]>> :
        d \in WellFormedDerivs }
    \cup { <<s, NoDeriv>> : s \in AllStrs(MaxStrLen) \ { d.str : d \in WellFormedDerivs } }

---------------------------------------------------------------------------
(***************************************************************************)
(* jvm/src/main.rs: Array, HeapItem, Heap                                  *)
(*                                                                         *)
(* An Array is [ty, elems]; the elements are integers for every element    *)
(* type: a Boolean element is 0 (false) or 1 (true), a Float or Double     *)
(* element n stands for the float n.0.  A HeapItem is [kind, arr] with     *)
(* kind "Array" or "Empty" (Object, Primitive and Null are never built).   *)
(***************************************************************************)

\* usize::MAX, the max_size of Heap::default(); the largest integer of the
\* model checker stands for it (no heap of the model comes near either)
USIZE_MAX == 2147483647

NoArray == [ty |-> "none", elems |-> <<>>]

HeapItem_Empty == [kind |-> "Empty", arr |-> NoArray]

HeapItem_Array(a) == [kind |-> "Array", arr |-> a]

HeapItem_is_empty(item) == item.kind = "Empty"

\* the match of Array::create: the element type of an atype
ATypes == 4..11

\* a variant of the match with the Float and Double arms exchanged
ATypeName_Swapped(atype) ==
    CASE atype = 4 -> "Boolean"
      [] atype = 5 -> "Char"
      [] atype = 6 -> "Double"
      [] atype = 7 -> "Float"
      [] atype = 8 -> "Byte"
      [] atype = 9 -> "Short"
      [] atype = 10 -> "Int"
      [] atype = 11 -> "Long"

ATypeName(atype) ==
    CASE atype = 4 -> "Boolean"
      [] atype = 5 -> "Char"
      [] atype = 6 -> "Float"
      [] atype = 7 -> "Double"
      [] atype = 8 -> "Byte"
      [] atype = 9 -> "Short"
      [] atype = 10 -> "Int"
      [] atype = 11 -> "Long"

\* slice![Default::default(); size]
Array_create(atype, size) ==
    IF atype \in ATypes
    THEN [ok |-> TRUE, val |-> [ty |-> ATypeName(atype), elems |-> [i \in 1..size |-> 0]]]
    ELSE [ok |-> FALSE, val |-> NoArray]

Heap_is_valid_reference(inner, index) ==
    /\ index < Len(inner)
    /\ inner[index + 1].kind # "Empty"

\* a Result of a Heap method: the cells afterwards and the value returned
HRes(ok, inner, ret) == [ok |-> ok, inner |-> inner, ret |-> ret]

\* a variant of remove that always leaves an Empty cell behind
Heap_remove_NoShrink(inner, index) ==
    IF ~Heap_is_valid_reference(inner, index) THEN HRes(FALSE, inner, 0)
    ELSE HRes(TRUE, [inner EXCEPT ![index + 1] = HeapItem_Empty], 0)

Heap_remove(inner, index) ==
    LET len == Len(inner) IN
    IF ~Heap_is_valid_reference(inner, index) THEN HRes(FALSE, inner, 0)
    ELSE IF index = len - 1
         THEN HRes(TRUE, SubSeq(inner, 1, len - 1), 0)
         ELSE HRes(TRUE, [inner EXCEPT ![index + 1] = HeapItem_Empty], 0)

\* the indices of the Empty cells
EmptyIndices(inner) == { i \in 0..(Len(inner) - 1) : HeapItem_is_empty(inner[i + 1]) }

MinOf(S) == CHOOSE x \in S : \A y \in S : x <= y

\* a variant of try_append that pushes whatever the length
Heap_try_append_Unbounded(inner, max, item) ==
    IF EmptyIndices(inner) # {}
    THEN LET i == MinOf(EmptyIndices(inner))
         IN  HRes(TRUE, [inner EXCEPT ![i + 1] = item], i)
    ELSE HRes(TRUE, Append(inner, item), Len(inner))

\* a variant of try_append that never reuses an Empty cell
Heap_try_append_NoReuse(inner, max, item) ==
    IF Len(inner) < max
    THEN HRes(TRUE, Append(inner, item), Len(inner))
    ELSE HRes(FALSE, inner, 0)

Heap_try_append(inner, max, item) ==
    IF EmptyIndices(inner) # {}
    THEN LET i == MinOf(EmptyIndices(inner))
         IN  HRes(TRUE, [inner EXCEPT ![i + 1] = item], i)
    ELSE IF Len(inner) < max
         THEN HRes(TRUE, Append(inner, item), Len(inner))
         ELSE HRes(FALSE, inner, 0)

\* a variant of create_array that returns the index after the cell
Heap_create_array_Past(inner, max, atype, size) ==
    LET a == Array_create(atype, size) IN
    IF ~a.ok THEN HRes(FALSE, inner, 0)
    ELSE [Heap_try_append(inner, max, HeapItem_Array(a.val)) EXCEPT !.ret = @ + 1]

Heap_create_array(inner, max, atype, size) ==
    LET a == Array_create(atype, size) IN
    IF ~a.ok THEN HRes(FALSE, inner, 0)
    ELSE Heap_try_append(inner, max, HeapItem_Array(a.val))

---------------------------------------------------------------------------
(***************************************************************************)
(* jvm/src/types.rs: DataType, StackFrame                                  *)
(*                                                                         *)
(* A DataType is [t, v]: the tag and the payload (0 for Null and Empty;    *)
(* 0 or 1 for a Boolean; n for the float n.0).                             *)
(***************************************************************************)

DT(t, v) == [t |-> t, v |-> v]

DataType_Int(n) == DT("Int", n)

DataType_ArrayReference(i) == DT("ArrayReference", i)

DataType_Empty == DT("Empty", 0)

StackFrame_new(max_stack, max_locals) ==
    [variables |-> [i \in 1..max_locals |-> DataType_Empty], op_stack |-> <<>>, pc |-> 0]

StackFrame_for_method(method) ==
    [variables |-> [i \in 1..method.max_locals |-> DataType_Empty], op_stack |-> <<>>, pc |-> 0]

NoFrame == [variables |-> <<>>, op_stack |-> <<>>, pc |-> 0]

\* Vec::pop: the Option and the vector afterwards
Pop(os) ==
    IF os = <<>> THEN [some |-> FALSE, v |-> DataType_Empty, os |-> os]
    ELSE [some |-> TRUE, v |-> os[Len(os)], os |-> SubSeq(os, 1, Len(os) - 1)]

---------------------------------------------------------------------------
(***************************************************************************)
(* The loaded classes.  Every class file carries the same constant pool;   *)
(* element n of ConstantPool is the constant of wire index n, which the    *)
(* source reads as constant_pool[n - 1].                                   *)
(***************************************************************************)

Utf8(s) == [tag |-> "Utf8", string |-> s, a |-> 0, b |-> 0]

ClassConst(name_index) == [tag |-> "Class", string |-> "", a |-> name_index, b |-> 0]

NameAndType(name_index, descriptor_index) ==
    [tag |-> "NameAndType", string |-> "", a |-> name_index, b |-> descriptor_index]

MethodRef(class_index, name_and_type_index) ==
    [tag |-> "MethodRef", string |-> "", a |-> class_index, b |-> name_and_type_index]

FieldRef(class_index, name_and_type_index) ==
    [tag |-> "FieldRef", string |-> "", a |-> class_index, b |-> name_and_type_index]

ConstantPool ==
    << Utf8("Main"), ClassConst(1), Utf8("A"), ClassConst(3), Utf8("B"), ClassConst(5),
       Utf8("f"), Utf8("(II)I"), NameAndType(7, 8), MethodRef(2, 9),
       Utf8("g"), Utf8("()I"), NameAndType(11, 12), MethodRef(2, 13),
       Utf8("h"), Utf8("()I"), NameAndType(15, 16), MethodRef(4, 17),
       Utf8("x"), Utf8("I"), NameAndType(19, 20), FieldRef(4, 21), FieldRef(6, 21) >>

\* str::chars of the descriptors of the class files
Chars(s) ==
    CASE s = "(II)I" -> <<"(", "I", "I", ")", "I">>
      [] s = "()I" -> <<"(", ")", "I">>
      [] s = "()V" -> <<"(", ")", "V">>
      [] s = "([Ljava/lang/String;)V" ->
            <<"(", "[", "L", "j","a","v","a","/","l","a","n","g","/",
              "S","t","r","i","n","g", ";", ")", "V">>
      [] OTHER -> <<>>

\* a method of a class file with a Code attribute; id names its code
Method(id, name, descriptor, access_flags, max_stack, max_locals) ==
    [id |-> id, name |-> name, descriptor |-> descriptor,
     access_flags |-> access_flags, has_code |-> TRUE,
     max_stack |-> max_stack, max_locals |-> max_locals]

ClassNames == {"Main", "A", "B"}

\* ClassFile::methods() of each loaded class, in file order
Methods(c) ==
    CASE c = "Main" ->
            << Method("Main.main", "main", "([Ljava/lang/String;)V", {"PUBLIC", "STATIC"}, 3, 1),
               Method("Main.f", "f", "(II)I", {"STATIC"}, 2, 3),
               Method("Main.g", "g", "()I", {"STATIC"}, 2, 1) >>
      [] c = "A" ->
            << Method("A.<clinit>", "<clinit>", "()V", {"STATIC"}, 2, 0),
               Method("A.h", "h", "()I", {"PUBLIC", "STATIC"}, 2, 1) >>
      [] c = "B" -> << >>

MethodIds == {"Main.main", "Main.f", "Main.g", "A.<clinit>", "A.h"}

\* Iterator::find over methods(): the first method of the name and descriptor
FindMethod(c, name, descriptor) ==
    LET ms == Methods(c)
        hits == { i \in 1..Len(ms) : ms[i].name = name /\ ms[i].descriptor = descriptor }
    IN  IF hits = {} THEN [some |-> FALSE, m |-> Method("", "", "", {}, 0, 0)]
        ELSE [some |-> TRUE, m |-> ms[MinOf(hits)]]

ClassFile_find_entry_point(c) ==
    LET f == FindMethod(c, "main", "([Ljava/lang/String;)V")
    IN  IF ~f.some THEN f
        ELSE IF {"PUBLIC", "STATIC"} \ f.m.access_flags # {} THEN [f EXCEPT !.some = FALSE]
        ELSE f

ClassFile_find_init_method(c) ==
    LET f == FindMethod(c, "<clinit>", "()V")
    IN  IF ~f.some THEN f
        ELSE IF {"STATIC"} \ f.m.access_flags # {} THEN [f EXCEPT !.some = FALSE]
        ELSE f

---------------------------------------------------------------------------
(***************************************************************************)
(* class-files/src/bytes.rs, types/raw.rs and lib.rs: reading a class file *)
(* A reader is the bytes bs of the file and the number pos of bytes read.  *)
(* A call returns [kind, v, pos, err]: kind is "Ok" (v is the value),      *)
(* "Err" (err is the message of the anyhow error) or "panic".              *)
(***************************************************************************)

ROk(v, pos) == [kind |-> "Ok", v |-> v, pos |-> pos, err |-> ""]

RErr(err, pos) == [kind |-> "Err", v |-> <<>>, pos |-> pos, err |-> err]

RPanic(pos) == [kind |-> "panic", v |-> <<>>, pos |-> pos, err |-> ""]

\* Read::read_exact of n bytes
read_exact(bs, pos, n) ==
    IF pos + n <= Len(bs) THEN ROk(SubSeq(bs, pos + 1, pos + n), pos + n)
    ELSE RErr("failed to fill whole buffer", Len(bs))

read_u8(bs, pos) ==
    LET r == read_exact(bs, pos, 1)
    IN  IF r.kind = "Ok" THEN ROk(r.v[1], r.pos) ELSE r

\* big-endian
read_u16(bs, pos) ==
    LET r == read_exact(bs, pos, 2)
    IN  IF r.kind = "Ok" THEN ROk(r.v[1] * 256 + r.v[2], r.pos) ELSE r

\* read_u32 of a length: a length of 2^24 or more stands for itself as 2^24,
\* which is more bytes than any file of the model has
read_u32(bs, pos) ==
    LET r == read_exact(bs, pos, 4)
    IN  IF r.kind # "Ok" THEN r
        ELSE IF r.v[1] # 0 THEN ROk(16777216, r.pos)
        ELSE ROk((r.v[2] * 256 + r.v[3]) * 256 + r.v[4], r.pos)

\* str::as_bytes of the strings the class files of the model are made of
Str_bytes(s) ==
    CASE s = "main" -> <<109, 97, 105, 110>>
      [] s = "<clinit>" -> <<60, 99, 108, 105, 110, 105, 116, 62>>
      [] s = "([Ljava/lang/String;)V" ->
            <<40, 91, 76, 106, 97, 118, 97, 47, 108, 97, 110, 103, 47,
              83, 116, 114, 105, 110, 103, 59, 41, 86>>
      [] s = "()V" -> <<40, 41, 86>>
      [] s = "A" -> <<65>>
      [] s = "B" -> <<66>>
      [] s = "f" -> <<102>>
      [] s = "Code" -> <<67, 111, 100, 101>>
      [] s = "SourceFile" -> <<83, 111, 117, 114, 99, 101, 70, 105, 108, 101>>
      [] s = "Signature" -> <<83, 105, 103, 110, 97, 116, 117, 114, 101>>
      [] s = "EnclosingMethod" ->
            <<69, 110, 99, 108, 111, 115, 105, 110, 103, 77, 101, 116, 104, 111, 100>>
      [] s = "ConstantValue" ->
            <<67, 111, 110, 115, 116, 97, 110, 116, 86, 97, 108, 117, 101>>
      [] s = "I" -> <<73>>
      [] OTHER -> <<>>

KnownStrs ==
    {"main", "<clinit>", "([Ljava/lang/String;)V", "()V", "A", "B", "f", "Code",
     "SourceFile", "Signature", "EnclosingMethod", "ConstantValue", "I"}

\* cesu8::from_java_cesu8 of ASCII bytes: the string of these bytes.  A
\* string that is none of KnownStrs is kept as "?", which is none of the
\* strings the code compares a name with.
from_java_cesu8(bytes) ==
    IF \E s \in KnownStrs : Str_bytes(s) = bytes
    THEN CHOOSE s \in KnownStrs : Str_bytes(s) = bytes
    ELSE "?"

\* the constants that are not part of the loaded classes above
RawConstant_Unused == [tag |-> "Unused", string |-> "", a |-> 0, b |-> 0]

RawConstant_Num(tag, bytes) == [tag |-> tag, string |-> "", a |-> 0, b |-> 0, num |-> bytes]

RawConstant_Ref(tag, a, b) == [tag |-> tag, string |-> "", a |-> a, b |-> b]

\* the value of a set of one element: { e(x) : x \in {v} } is e of the value v
Only(S) == CHOOSE x \in S : TRUE

\* RawConstant::read_from: v is [c, skip_next]
RawConstant_read_from(bs, pos) ==
    LET one(tag, p) ==
            Only({ IF x.kind # "Ok" THEN x
                   ELSE ROk([c |-> RawConstant_Ref(tag, x.v, 0), skip_next |-> FALSE], x.pos) :
                   x \in {read_u16(bs, p)} })
        two(tag, p) ==
            Only({ IF x.kind # "Ok" THEN x
                   ELSE Only({ IF y.kind # "Ok" THEN y
                               ELSE ROk([c |-> RawConstant_Ref(tag, x.v, y.v),
                                         skip_next |-> FALSE], y.pos) :
                               y \in {read_u16(bs, x.pos)} }) :
                   x \in {read_u16(bs, p)} })
        num(tag, n, skip, p) ==
            Only({ IF x.kind # "Ok" THEN x
                   ELSE ROk([c |-> RawConstant_Num(tag, x.v), skip_next |-> skip], x.pos) :
                   x \in {read_exact(bs, p, n)} })
        utf8(p) ==
            Only({ IF count.kind # "Ok" THEN count
                   ELSE Only({ IF bytes.kind # "Ok" THEN bytes
                               ELSE ROk([c |-> Utf8(from_java_cesu8(bytes.v)),
                                         skip_next |-> FALSE], bytes.pos) :
                               bytes \in {read_exact(bs, count.pos, count.v)} }) :
                   count \in {read_u16(bs, p)} })
        handle(p) ==
            Only({ IF x.kind # "Ok" THEN x
                   ELSE Only({ IF y.kind # "Ok" THEN y
                               ELSE ROk([c |-> RawConstant_Ref("MethodHandle", x.v, y.v),
                                         skip_next |-> FALSE], y.pos) :
                               y \in {read_u16(bs, x.pos)} }) :
                   x \in {read_u8(bs, p)} })
    IN  Only({ IF t.kind # "Ok" THEN t
               ELSE CASE t.v = 7 -> one("Class", t.pos)
                      [] t.v = 9 -> two("FieldRef", t.pos)
                      [] t.v = 10 -> two("MethodRef", t.pos)
                      [] t.v = 11 -> two("InterfaceMethodRef", t.pos)
                      [] t.v = 8 -> one("String", t.pos)
                      [] t.v = 3 -> num("Integer", 4, FALSE, t.pos)
                      [] t.v = 4 -> num("Float", 4, FALSE, t.pos)
                      [] t.v = 5 -> num("Long", 8, TRUE, t.pos)
                      [] t.v = 6 -> num("Double", 8, TRUE, t.pos)
                      [] t.v = 12 -> two("NameAndType", t.pos)
                      [] t.v = 1 -> utf8(t.pos)
                      [] t.v = 15 -> handle(t.pos)
                      [] t.v = 16 -> one("MethodType", t.pos)
                      [] t.v = 18 -> two("InvokeDynamic", t.pos)
                      [] OTHER -> RErr("Invalid constant tag", t.pos) :
               t \in {read_u8(bs, pos)} })

\* the loop of read_from over the constant pool as it would be with no
\* Unused pushed after a Long or a Double
RECURSIVE ReadConstants_NoUnused(_, _, _, _, _)
ReadConstants_NoUnused(bs, pos, i, constant_pool_count, constant_pool) ==
    IF ~(i < constant_pool_count) THEN ROk(constant_pool, pos)
    ELSE Only({ IF r.kind # "Ok" THEN RErr("parsing raw constant", r.pos)
                ELSE ReadConstants_NoUnused(bs, r.pos, IF r.v.skip_next THEN i + 2 ELSE i + 1,
                                            constant_pool_count, constant_pool \o <<r.v.c>>) :
                r \in {RawConstant_read_from(bs, pos)} })

\* the loop of read_from over the constant pool, from its i on
RECURSIVE ReadConstants(_, _, _, _, _)
ReadConstants(bs, pos, i, constant_pool_count, constant_pool) ==
    IF ~(i < constant_pool_count) THEN ROk(constant_pool, pos)
    ELSE Only({ IF r.kind # "Ok" THEN RErr("parsing raw constant", r.pos)
                ELSE IF r.v.skip_next
                THEN ReadConstants(bs, r.pos, i + 2, constant_pool_count,
                                   constant_pool \o <<r.v.c, RawConstant_Unused>>)
                ELSE ReadConstants(bs, r.pos, i + 1, constant_pool_count,
                                   constant_pool \o <<r.v.c>>) :
                r \in {RawConstant_read_from(bs, pos)} })

\* RawAttribute::read_from
RawAttribute_read_from(bs, pos) ==
    Only({ IF name.kind # "Ok" THEN name
           ELSE Only({ IF len.kind # "Ok" THEN len
                       ELSE Only({ IF info.kind # "Ok" THEN info
                                   ELSE ROk([attribute_name_index |-> name.v,
                                             info |-> info.v], info.pos) :
                                   info \in {read_exact(bs, len.pos, len.v)} }) :
                       len \in {read_u32(bs, name.pos)} }) :
           name \in {read_u16(bs, pos)} })

\* the loop over the count attributes of a field, a method or the class
RECURSIVE ReadAttributes(_, _, _, _)
ReadAttributes(bs, pos, count, attributes) ==
    IF count = 0 THEN ROk(attributes, pos)
    ELSE Only({ IF r.kind # "Ok" THEN r
                ELSE ReadAttributes(bs, r.pos, count - 1, attributes \o <<r.v>>) :
                r \in {RawAttribute_read_from(bs, pos)} })

\* MethodAccessFlags and FieldAccessFlags (bitflags of types/mod.rs): the
\* flags of the bits of a u16, by their weights
FlagNames(weights, names, bits) ==
    { names[k] : k \in { j \in 1..Len(weights) : (bits \div weights[j]) % 2 = 1 } }

MethodAccessFlags_from_bits(bits) ==
    LET weights == <<1, 2, 4, 8, 16, 32, 64, 128, 256, 1024, 2048, 4096>>
        names == <<"PUBLIC", "PRIVATE", "PROTECTED", "STATIC", "FINAL", "SYNCHRONIZED",
                   "BRIDGE", "VARARGS", "NATIVE", "ABSTRACT", "STRICT", "SYNTHETIC">>
    IN  IF (bits \div 512) % 2 = 1 \/ bits >= 8192 THEN [some |-> FALSE, flags |-> {}]
        ELSE [some |-> TRUE, flags |-> FlagNames(weights, names, bits)]

FieldAccessFlags_from_bits(bits) ==
    LET weights == <<1, 2, 4, 8, 16, 64, 128, 4096, 16384>>
        names == <<"PUBLIC", "PRIVATE", "PROTECTED", "STATIC", "FINAL", "VOLATILE",
                   "TRANSIENT", "SYNTHETIC", "ENUM">>
    IN  IF \E w \in {32, 256, 512, 1024, 2048, 8192, 32768} : (bits \div w) % 2 = 1
        THEN [some |-> FALSE, flags |-> {}]
        ELSE [some |-> TRUE, flags |-> FlagNames(weights, names, bits)]

\* RawMethod::read_from (is_method) and RawField::read_from
RawMember_read_from(bs, pos, is_method) ==
    Only({ IF access_flags.kind # "Ok" THEN access_flags
           ELSE Only({ IF ~flags.some
                       THEN RErr(IF is_method THEN "Invalid Method Access Flags"
                                 ELSE "Invalid Field Access Flags", access_flags.pos)
                       ELSE Only({ IF name_index.kind # "Ok" THEN name_index
                         ELSE Only({ IF descriptor_index.kind # "Ok" THEN descriptor_index
                           ELSE Only({ IF attribute_count.kind # "Ok" THEN attribute_count
                             ELSE Only({ IF attributes.kind # "Ok" THEN attributes
                                         ELSE ROk([access_flags |-> flags.flags,
                                                   name_index |-> name_index.v,
                                                   descriptor_index |-> descriptor_index.v,
                                                   attributes |-> attributes.v],
                                                  attributes.pos) :
                                         attributes \in
                                           {ReadAttributes(bs, attribute_count.pos,
                                                           attribute_count.v, <<>>)} }) :
                             attribute_count \in {read_u16(bs, descriptor_index.pos)} }) :
                           descriptor_index \in {read_u16(bs, name_index.pos)} }) :
                         name_index \in {read_u16(bs, access_flags.pos)} }) :
                       flags \in {IF is_method
                                  THEN MethodAccessFlags_from_bits(access_flags.v)
                                  ELSE FieldAccessFlags_from_bits(access_flags.v)} }) :
           access_flags \in {read_u16(bs, pos)} })

\* read_vec! over fields and methods
RECURSIVE ReadMembers(_, _, _, _, _)
ReadMembers(bs, pos, count, is_method, members) ==
    IF count = 0 THEN ROk(members, pos)
    ELSE Only({ IF r.kind # "Ok" THEN r
                ELSE ReadMembers(bs, r.pos, count - 1, is_method, members \o <<r.v>>) :
                r \in {RawMember_read_from(bs, pos, is_method)} })

\* read_vec! over interfaces
RECURSIVE ReadInterfaces(_, _, _, _)
ReadInterfaces(bs, pos, count, interfaces) ==
    IF count = 0 THEN ROk(interfaces, pos)
    ELSE Only({ IF r.kind # "Ok" THEN RErr("parsing interface", r.pos)
                ELSE ReadInterfaces(bs, r.pos, count - 1, interfaces \o <<r.v>>) :
                r \in {read_u16(bs, pos)} })

Magic == <<202, 254, 186, 190>>

\* ClassFile::default
ClassFile_default ==
    [version |-> <<0, 0>>, constant_pool |-> <<>>, access_flags |-> 0, this_class |-> 0,
     super_class |-> 0, interfaces |-> <<>>, fields |-> <<>>, methods |-> <<>>,
     attributes |-> <<>>]

\* the statements of read_from after the test of the magic, by their
\* number: st is [kind, v, pos, err] with out as its v
ReadStatement(bs, st, k) ==
    LET out == st.v
        u16(field, context) ==
            Only({ IF r.kind # "Ok" THEN RErr(context, r.pos)
                   ELSE ROk([out EXCEPT ![field] = r.v], r.pos) :
                   r \in {read_u16(bs, st.pos)} })
        kept(field, r) == IF r.kind # "Ok" THEN r ELSE ROk([out EXCEPT ![field] = r.v], r.pos)
    IN  CASE k = 1 ->
              Only({ IF r.kind # "Ok" THEN RErr("parsing minor version", r.pos)
                     ELSE ROk([out EXCEPT !.version = <<0, r.v>>], r.pos) :
                     r \in {read_u16(bs, st.pos)} })
          [] k = 2 ->
              Only({ IF r.kind # "Ok" THEN RErr("parsing major version", r.pos)
                     ELSE ROk([out EXCEPT !.version = <<r.v, out.version[2]>>], r.pos) :
                     r \in {read_u16(bs, st.pos)} })
          [] k = 3 ->
              Only({ IF count.kind # "Ok" THEN count
                     \* constant_pool_count as usize - 1 of a count of 0: the
                     \* subtraction panics where overflow is checked, and
                     \* where it wraps reserve_exact(usize::MAX) panics
                     ELSE IF count.v = 0 THEN RPanic(count.pos)
                     ELSE Only({ kept("constant_pool", r) :
                                 r \in {ReadConstants(bs, count.pos, 1, count.v, <<>>)} }) :
                     count \in {read_u16(bs, st.pos)} })
          [] k = 4 -> u16("access_flags", "parsing access_flags")
          [] k = 5 -> u16("this_class", "parsing this_class")
          [] k = 6 -> u16("super_class", "parsing super_class")
          [] k = 7 ->
              Only({ IF count.kind # "Ok" THEN RErr("parsing count", count.pos)
                     ELSE Only({ kept("interfaces", r) :
                                 r \in {ReadInterfaces(bs, count.pos, count.v, <<>>)} }) :
                     count \in {read_u16(bs, st.pos)} })
          [] k = 8 ->
              Only({ IF count.kind # "Ok" THEN RErr("parsing count", count.pos)
                     ELSE Only({ kept("fields", r) :
                                 r \in {ReadMembers(bs, count.pos, count.v, FALSE, <<>>)} }) :
                     count \in {read_u16(bs, st.pos)} })
          [] k = 9 ->
              Only({ IF count.kind # "Ok" THEN RErr("parsing count", count.pos)
                     ELSE Only({ kept("methods", r) :
                                 r \in {ReadMembers(bs, count.pos, count.v, TRUE, <<>>)} }) :
                     count \in {read_u16(bs, st.pos)} })
          [] k = 10 ->
              Only({ IF count.kind # "Ok" THEN RErr("parsing count", count.pos)
                     ELSE Only({ kept("attributes", r) :
                                 r \in {ReadAttributes(bs, count.pos, count.v, <<>>)} }) :
                     count \in {read_u16(bs, st.pos)} })
          \* check that we've consumed all bytes
          [] OTHER ->
              IF st.pos # Len(bs) THEN RErr("bytes remaining in file", Len(bs)) ELSE st

RECURSIVE ReadStatements(_, _, _)
ReadStatements(bs, st, k) ==
    IF st.kind # "Ok" \/ k > 11 THEN st
    ELSE Only({ ReadStatements(bs, next, k + 1) : next \in {ReadStatement(bs, st, k)} })

\* ClassFile::read_from after the test of the magic
ClassFile_read_rest(bs) == ReadStatements(bs, ROk(ClassFile_default, 4), 1)

\* ClassFile::read_from as it would be without the test of the magic
ClassFile_read_from_NoMagic(bs) ==
    LET magic == read_exact(bs, 0, 4)
    IN  IF magic.kind # "Ok" THEN RErr("parsing magic", magic.pos)
        ELSE ClassFile_read_rest(bs)

\* ClassFile::read_from; the error of a wrong magic carries the magic read
ClassFile_read_from(bs) ==
    LET magic == read_exact(bs, 0, 4)
    IN  IF magic.kind # "Ok" THEN RErr("parsing magic", magic.pos)
        ELSE IF magic.v # Magic
        THEN [RErr("Invalid magic value", magic.pos) EXCEPT !.v = magic.v]
        ELSE ClassFile_read_rest(bs)

---------------------------------------------------------------------------
(***************************************************************************)
(* class-files/src/lib.rs and types/resolved.rs: the accessors of a        *)
(* ClassFile.  A call returns [kind, v]: "Ok" (v is the value), "Err" (v   *)
(* is the message) or "panic".                                             *)
(***************************************************************************)

AOk(v) == [kind |-> "Ok", v |-> v]

AErr(msg) == [kind |-> "Err", v |-> msg]

APanic == [kind |-> "panic", v |-> ""]

\* &constant_pool[n] of a usize n: the element after the first n, and a
\* panic where there is none
Index(constant_pool, n) ==
    IF n < Len(constant_pool) THEN AOk(constant_pool[n + 1]) ELSE APanic

\* &constant_pool[n - 1] of a usize n.  Of n = 0 the subtraction panics
\* where overflow is checked, and where it wraps the index is usize::MAX,
\* past the end of every pool: a panic as well.
IndexBefore(constant_pool, n) ==
    IF n = 0 THEN APanic ELSE Index(constant_pool, n - 1)

\* RawConstant::unwrap_utf8 of the constant an indexing made
unwrap_utf8(c) ==
    IF c.kind # "Ok" THEN c
    ELSE IF c.v.tag = "Utf8" THEN AOk(c.v.string)
    ELSE APanic

\* ClassFile::this_class and ClassFile::super_class, of the index of each
ClassFile_class_name(file, index) ==
    LET c == IndexBefore(file.constant_pool, index)
    IN  IF c.kind # "Ok" THEN c
        ELSE IF c.v.tag = "Class" THEN unwrap_utf8(IndexBefore(file.constant_pool, c.v.a))
        ELSE AErr("Expected Class Constant")

ClassFile_this_class(file) == ClassFile_class_name(file, file.this_class)

ClassFile_super_class(file) == ClassFile_class_name(file, file.super_class)

\* ClassFile::interfaces, collected: the items of the iterator, up to the
\* first that panics
ClassFile_interfaces(file) ==
    [i \in 1..Len(file.interfaces) |-> Index(file.constant_pool, file.interfaces[i])]

\* Method::from_raw and Field::from_raw
Method_from_raw(raw, constant_pool) ==
    LET name == unwrap_utf8(IndexBefore(constant_pool, raw.name_index))
        descriptor == unwrap_utf8(IndexBefore(constant_pool, raw.descriptor_index))
    IN  IF name.kind # "Ok" THEN name
        ELSE IF descriptor.kind # "Ok" THEN descriptor
        ELSE AOk([access_flags |-> raw.access_flags, name |-> name.v,
                  descriptor |-> descriptor.v, attributes |-> raw.attributes])

Field_from_raw(raw, const_pool) ==
    LET name == unwrap_utf8(IndexBefore(const_pool, raw.name_index))
        descriptor == unwrap_utf8(IndexBefore(const_pool, raw.descriptor_index))
    IN  IF name.kind # "Ok" THEN name
        ELSE IF descriptor.kind # "Ok" THEN descriptor
        ELSE AOk([access_flags |-> raw.access_flags, name |-> name.v,
                  descriptor |-> descriptor.v, attributes |-> raw.attributes])

\* ClassFile::methods and ClassFile::fields: the items of the iterators
ClassFile_methods(file) ==
    [i \in 1..Len(file.methods) |-> Method_from_raw(file.methods[i], file.constant_pool)]

ClassFile_fields(file) ==
    [i \in 1..Len(file.fields) |-> Field_from_raw(file.fields[i], file.constant_pool)]

\* cursor.read_u16().unwrap() at the k-th u16 of the info of an attribute
InfoU16(info, k) ==
    LET r == read_u16(info, 2 * (k - 1))
    IN  IF r.kind = "Ok" THEN AOk(r.v) ELSE APanic

\* Attribute::from_raw, for the attributes the class files of the model
\* carry: v is [attr, refs], the variant and what its fields refer to
Attribute_from_raw(raw, const_pool) ==
    LET name == unwrap_utf8(IndexBefore(const_pool, raw.attribute_name_index))
        at(k) == IF InfoU16(raw.info, k).kind # "Ok" THEN APanic
                 ELSE IndexBefore(const_pool, InfoU16(raw.info, k).v)
        variant(rs) == IF \E i \in 1..Len(rs) : rs[i].kind # "Ok" THEN APanic
                  ELSE AOk([attr |-> name.v, refs |-> [i \in 1..Len(rs) |-> rs[i].v]])
    IN  IF name.kind # "Ok" THEN name
        ELSE CASE name.v = "ConstantValue" ->
                    variant(<< IF InfoU16(raw.info, 1).kind # "Ok" THEN APanic
                          ELSE Index(const_pool, InfoU16(raw.info, 1).v) >>)
               [] name.v = "EnclosingMethod" -> variant(<< at(1), at(2) >>)
               [] name.v = "Signature" -> variant(<< at(1) >>)
               [] name.v = "SourceFile" -> variant(<< unwrap_utf8(at(1)) >>)
               [] OTHER -> AOk([attr |-> "Other", refs |-> << >>])

\* ClassFile::attributes and Field::attributes: the items of the iterators
Attributes(raws, constant_pool) ==
    [i \in 1..Len(raws) |-> Attribute_from_raw(raws[i], constant_pool)]

\* Iterator::find over methods(): the first method of the name and the
\* descriptor, and a panic if making it or one before it panics
RECURSIVE Methods_find(_, _, _, _)
Methods_find(ms, i, name, descriptor) ==
    IF i > Len(ms) THEN [kind |-> "None", v |-> ""]
    ELSE IF ms[i].kind # "Ok" THEN APanic
    ELSE IF ms[i].v.name = name /\ ms[i].v.descriptor = descriptor
    THEN [kind |-> "Some", v |-> ms[i].v]
    ELSE Methods_find(ms, i + 1, name, descriptor)

\* find_entry_point as it would be with !access_flags.intersects(..)
find_entry_point_AnyFlag(file) ==
    LET f == Methods_find(ClassFile_methods(file), 1, "main", "([Ljava/lang/String;)V")
    IN  IF f.kind # "Some" THEN f
        ELSE IF {"PUBLIC", "STATIC"} \cap f.v.access_flags = {}
        THEN [kind |-> "None", v |-> ""]
        ELSE f

\* ClassFile::find_entry_point of a class file as read_from made it
find_entry_point(file) ==
    LET f == Methods_find(ClassFile_methods(file), 1, "main", "([Ljava/lang/String;)V")
    IN  IF f.kind # "Some" THEN f
        ELSE IF {"PUBLIC", "STATIC"} \ f.v.access_flags # {}
        THEN [kind |-> "None", v |-> ""]
        ELSE f

\* ClassFile::find_init_method of a class file as read_from made it
find_init_method(file) ==
    LET f == Methods_find(ClassFile_methods(file), 1, "<clinit>", "()V")
    IN  IF f.kind # "Some" THEN f
        ELSE IF {"STATIC"} \ f.v.access_flags # {}
        THEN [kind |-> "None", v |-> ""]
        ELSE f

---------------------------------------------------------------------------
(***************************************************************************)
(* jvm/src/main.rs: Array::get and Array::set                              *)
(***************************************************************************)

\* a variant of the cast that keeps the low 8 bits unsigned
Byte_of_Int_Unsigned(b) == b % 256

\* (b & 0xff) as i8
Byte_of_Int(b) == LET m == b % 256 IN IF m >= 128 THEN m - 256 ELSE m

\* a[index].into(): the element as the DataType of the array's element type
Array_get(arr, index) ==
    IF index < 0 \/ index >= Len(arr.elems)
    THEN [kind |-> "panic", val |-> DataType_Empty]
    ELSE [kind |-> "ok", val |-> DT(arr.ty, arr.elems[index + 1])]

\* a variant of Array::set that writes element 0 whatever the index
Array_set_First(arr, index, value) ==
    IF index < 0 \/ index >= Len(arr.elems) THEN [kind |-> "panic", arr |-> arr]
    ELSE IF value.t # arr.ty THEN [kind |-> "err", arr |-> arr]
    ELSE [kind |-> "ok", arr |-> [arr EXCEPT !.elems[1] = value.v]]

\* a variant of Array::set that stores the payload of a value of any type
Array_set_Unchecked(arr, index, value) ==
    IF index < 0 \/ index >= Len(arr.elems) THEN [kind |-> "panic", arr |-> arr]
    ELSE [kind |-> "ok", arr |-> [arr EXCEPT !.elems[index + 1] = value.v]]

\* the outcome of Array::set and the array afterwards
Array_set(arr, index, value) ==
    LET oob == index < 0 \/ index >= Len(arr.elems)
        Put(b) == IF oob THEN [kind |-> "panic", arr |-> arr]
                  ELSE [kind |-> "ok", arr |-> [arr EXCEPT !.elems[index + 1] = b]]
        Bail == [kind |-> "err", arr |-> arr]
    IN  CASE arr.ty = "Boolean" ->
               (CASE value.t = "Boolean" -> Put(value.v)
                  [] value.t = "Int" -> Put(IF value.v % 2 = 1 THEN 1 ELSE 0)
                  [] OTHER -> Bail)
          [] arr.ty = "Byte" ->
               (CASE value.t = "Byte" -> Put(value.v)
                  [] value.t = "Int" -> Put(Byte_of_Int(value.v))
                  [] OTHER -> Bail)
          [] OTHER -> IF value.t = arr.ty THEN Put(value.v) ELSE Bail

\* Heap::get_array and Heap::get_array_mut: the array of a cell, or Err
Heap_get_array(inner, index) ==
    IF index >= Len(inner) THEN [ok |-> FALSE, arr |-> NoArray]
    ELSE IF inner[index + 1].kind # "Array" THEN [ok |-> FALSE, arr |-> NoArray]
    ELSE [ok |-> TRUE, arr |-> inner[index + 1].arr]

---------------------------------------------------------------------------
(***************************************************************************)
(* jvm/src/main.rs run_code and jvm/src/op_code.rs handle_op_code          *)
(*                                                                         *)
(* The Code attributes are the input.  A method's bytes are fixed the      *)
(* first time the dispatch loop fetches them, one instruction of the menu  *)
(* at a time, together with whether the instruction is the method's last;  *)
(* a later activation of the method reads the same bytes.  No branch       *)
(* instruction is executable, so a return is the last instruction a        *)
(* method executes: the programs are those whose code ends there.          *)
(***************************************************************************)

Top == calls[Len(calls)]

\* run_code's `stack_frame`, and the frame it names
SF == Top.stack_frame

Frame == stack[SF + 1]

Fetching == status = "running" /\ pcn = "fetch"

Op_ireturn == 172

Op_return == 177

\* the instructions of the program fetched so far
Fetched(cd) ==
    cd["Main.main"].n + cd["Main.f"].n + cd["Main.g"].n + cd["A.<clinit>"].n + cd["A.h"].n

\* whether the code of method m has no byte after those fetched: it was
\* fetched as the method's last, or the program has no more instructions
Closed(cd, m) == cd[m].closed \/ Fetched(cd) >= limit

\* whether a next instruction may be the last of its method
Ends(ins) == IF ins[1] \in {Op_ireturn, Op_return} THEN {TRUE} ELSE {TRUE, FALSE}

\* the code once the instruction at the pc of the executing frame is known
CodeChoices ==
    LET m == Top.method
        c == code[m]
    IN  IF Frame.pc < Len(c.bytes) THEN {code}
        ELSE IF Closed(code, m) THEN {}
        ELSE UNION { { [code EXCEPT ![m] = [bytes |-> c.bytes \o ins, n |-> c.n + 1,
                                            closed |-> l]] : l \in Ends(ins) } :
                     ins \in menu }

\* cursor.read_u8() at offset k from the opcode
Byte(cd, k) == cd[Top.method].bytes[Frame.pc + 1 + k]

Opcode(cd) == Byte(cd, 0)

\* code.read_u16(): big-endian, after the opcode
U16(cd) == Byte(cd, 1) * 256 + Byte(cd, 2)

\* code.len() - start, the dpc after code.seek(SeekFrom::End(0))
ToEnd(cd) == Len(cd[Top.method].bytes) - Frame.pc

\* the Result of a handler: how it ended, the call stack and the heap it
\* leaves, the bytes its cursor moved over and the array store it made
HR(kind, st, hp, dpc) ==
    [kind |-> kind, stack |-> st, heap |-> hp, dpc |-> dpc, store |-> stored]

\* the call stack as it would be were the operands written to the last frame
\* of Jvm.stack
WithOps_Last(os) == [stack EXCEPT ![Len(stack)].op_stack = os]

\* the call stack with the executing frame's operand stack replaced
WithOps(os) == [stack EXCEPT ![SF + 1].op_stack = os]

\* the tail of the loop as it would be with the pc moved past the opcode only
LoopTail_One(st, a, dpc, cd) ==
    IF a.stack_frame < Len(st)
    THEN LET st2 == [st EXCEPT ![a.stack_frame + 1].pc = @ + 1]
         IN  [stack |-> st2,
              brk |-> /\ Closed(cd, a.method)
                      /\ st2[a.stack_frame + 1].pc >= Len(cd[a.method].bytes)]
    ELSE [stack |-> st, brk |-> TRUE]

\* the tail of run_code's loop for activation a, after a handler that
\* returned Ok with the cursor dpc bytes on: the stack, and whether the
\* loop ends
LoopTail(st, a, dpc, cd) ==
    IF a.stack_frame < Len(st)
    THEN LET st2 == [st EXCEPT ![a.stack_frame + 1].pc = @ + dpc]
         IN  [stack |-> st2,
              brk |-> /\ Closed(cd, a.method)
                      /\ st2[a.stack_frame + 1].pc >= Len(cd[a.method].bytes)]
    ELSE [stack |-> st, brk |-> TRUE]

\* the init_class calls among the activations cs, innermost first, each
\* returning the Err that its run_method returned
RECURSIVE UnwoundInits(_)
UnwoundInits(cs) ==
    IF cs = <<>> THEN <<>>
    ELSE LET a == cs[Len(cs)]
             rest == UnwoundInits(SubSeq(cs, 1, Len(cs) - 1))
         IN  IF a.via = "init_class"
             THEN <<[class |-> a.init, ret |-> "Err", why |-> "body"]>> \o rest
             ELSE rest

\* what is observed of a dispatched instruction
Obs(op, kind, arg) ==
    [op |-> op, kind |-> kind, arg |-> arg, frame |-> SF,
     pre_stack |-> stack, pre_heap |-> heap, ended |-> "", retv |-> DataType_Empty]

NoObs ==
    [op |-> "none", kind |-> "ok", arg |-> 0, frame |-> 0,
     pre_stack |-> <<>>, pre_heap |-> <<>>, ended |-> "", retv |-> DataType_Empty]

\* an Err propagates with `?` through every activation to run()'s caller;
\* a panic ends the process where it is
Failed(kind, st, hp) ==
    /\ stack' = st
    /\ heap' = hp
    /\ pcn' = "none"
    /\ IF kind = "err"
       THEN /\ calls' = <<>>
            /\ status' = "returned"
            /\ jres' = "Err"
       ELSE /\ status' = "panic"
            /\ UNCHANGED <<calls, jres>>

\* one turn of run_code's loop around a handler that pushes no activation
Commit(cd, r, op, arg) ==
    /\ code' = cd
    /\ last' = Obs(op, r.kind, arg)
    /\ stored' = r.store
    /\ IF r.kind = "ok"
       THEN \E t \in {LoopTail(r.stack, Top, r.dpc, cd)} :
                /\ stack' = t.stack
                /\ heap' = r.heap
                /\ pcn' = IF t.brk THEN "ret" ELSE "fetch"
                /\ UNCHANGED <<calls, status, jres, ilog>>
       ELSE /\ Failed(r.kind, r.stack, r.heap)
            /\ ilog' = IF r.kind = "err" THEN ilog \o UnwoundInits(calls) ELSE ilog
    /\ UNCHANGED <<classes, menu, limit, overflow_checks, clinit_runs, max_size, hlast, dvars, cvars>>

---------------------------------------------------------------------------
(* handle_op_code: the arms that work on the executing frame and the heap  *)

Push(os, v) == Append(os, v)

\* 0x02..=0x08 iconst_<i>
H_iconst(cd) ==
    HR("ok", WithOps(Push(Frame.op_stack, DataType_Int(Opcode(cd) - 3))), heap, 1)

\* 0x57 pop: the Option of Vec::pop is dropped
H_pop(cd) == HR("ok", WithOps(Pop(Frame.op_stack).os), heap, 1)

\* 0x59 dup
H_dup(cd) ==
    LET p == Pop(Frame.op_stack) IN
    IF ~p.some THEN HR("err", stack, heap, 1)
    ELSE HR("ok", WithOps(Push(Push(p.os, p.v), p.v)), heap, 1)

\* 0x1a..=0x1d iload_<n>
H_iload_n(cd) ==
    LET idx == Opcode(cd) - 26 IN
    IF idx >= Len(Frame.variables) THEN HR("panic", stack, heap, 1)
    ELSE HR("ok", WithOps(Push(Frame.op_stack, Frame.variables[idx + 1])), heap, 1)

\* 0xbc newarray
H_newarray(cd) ==
    LET atype == Byte(cd, 1)
        p == Pop(Frame.op_stack)
    IN  IF ~p.some \/ p.v.t # "Int" THEN HR("err", WithOps(p.os), heap, 2)
        ELSE IF atype \in ATypes /\ p.v.v < 0
             THEN \* size as usize is near 2^64: vec! panics (capacity overflow)
                  HR("panic", WithOps(p.os), heap, 2)
        ELSE LET r == Heap_create_array(heap, max_size, atype, p.v.v)
             IN  IF ~r.ok THEN HR("err", WithOps(p.os), heap, 2)
                 ELSE HR("ok", WithOps(Push(p.os, DataType_ArrayReference(r.ret))),
                         r.inner, 2)

\* 0x4f iastore
H_iastore(cd) ==
    LET p1 == Pop(Frame.op_stack)
        p2 == Pop(p1.os)
        p3 == Pop(p2.os)
    IN  IF ~p1.some \/ p1.v.t # "Int" THEN HR("err", WithOps(p1.os), heap, 1)
        ELSE IF ~p2.some \/ p2.v.t # "Int" THEN HR("err", WithOps(p2.os), heap, 1)
        ELSE IF ~p3.some \/ p3.v.t # "ArrayReference" THEN HR("err", WithOps(p3.os), heap, 1)
        ELSE LET g == Heap_get_array(heap, p3.v.v) IN
             IF ~g.ok THEN HR("err", WithOps(p3.os), heap, 1)
             ELSE LET s == Array_set(g.arr, p2.v.v, DataType_Int(p1.v.v)) IN
                  IF s.kind # "ok" THEN HR(s.kind, WithOps(p3.os), heap, 1)
                  ELSE [HR("ok", WithOps(p3.os),
                           [heap EXCEPT ![p3.v.v + 1].arr = s.arr], 1)
                        EXCEPT !.store = [ref |-> p3.v.v, index |-> p2.v.v,
                                          value |-> p1.v.v]]

\* 0x2e iaload
H_iaload(cd) ==
    LET p1 == Pop(Frame.op_stack)
        p2 == Pop(p1.os)
    IN  IF ~p1.some \/ p1.v.t # "Int" THEN HR("err", WithOps(p1.os), heap, 1)
        ELSE IF ~p2.some \/ p2.v.t # "ArrayReference" THEN HR("err", WithOps(p2.os), heap, 1)
        ELSE LET g == Heap_get_array(heap, p2.v.v) IN
             IF ~g.ok THEN HR("err", WithOps(p2.os), heap, 1)
             ELSE LET e == Array_get(g.arr, p1.v.v) IN
                  IF e.kind # "ok" THEN HR("panic", WithOps(p2.os), heap, 1)
                  ELSE HR("ok", WithOps(Push(p2.os, e.val)), heap, 1)

\* 0xac ireturn: pop the value off the executing frame, pop the topmost
\* frame, push the value on the frame that is topmost then
H_ireturn(cd) ==
    LET p == Pop(Frame.op_stack) IN
    IF ~p.some THEN HR("panic", stack, heap, ToEnd(cd))
    ELSE LET st1 == WithOps(p.os)
             st2 == SubSeq(st1, 1, Len(st1) - 1)
         IN  IF st2 = <<>> THEN HR("panic", st2, heap, ToEnd(cd))
             ELSE HR("ok", [st2 EXCEPT ![Len(st2)].op_stack = Push(@, p.v)],
                     heap, ToEnd(cd))

\* 0xb1 return: pop the topmost frame
H_return(cd) == HR("ok", SubSeq(stack, 1, Len(stack) - 1), heap, ToEnd(cd))

---------------------------------------------------------------------------
(***************************************************************************)
(* i32 arithmetic.  The operators `+`, `-`, `*` and unary `-` of Rust on   *)
(* i32 panic on overflow when the crate is built with overflow checks and  *)
(* wrap modulo 2^32 when it is built without; `/` panics on a zero divisor *)
(* and on i32::MIN / -1 in either build and truncates toward zero.  Each   *)
(* result here is [v, o]: the value reduced into the i32 range and whether *)
(* the exact value left the range.  The model checker's integers are 32    *)
(* bits wide themselves, so no intermediate value may leave the range.     *)
(***************************************************************************)

I32_MAX == 2147483647

I32_MIN == -I32_MAX - 1

\* a + b
I32_add(a, b) ==
    IF b > 0 /\ a > I32_MAX - b
    THEN [v |-> ((((a - I32_MAX) - 1) + b) - I32_MAX) - 1, o |-> TRUE]
    ELSE IF b < 0 /\ a < I32_MIN - b
    THEN [v |-> ((((a + I32_MAX) + 1) + b) + I32_MAX) + 1, o |-> TRUE]
    ELSE [v |-> a + b, o |-> FALSE]

\* -a
I32_neg(a) ==
    IF a = I32_MIN THEN [v |-> I32_MIN, o |-> TRUE] ELSE [v |-> -a, o |-> FALSE]

\* a - b
I32_sub(a, b) ==
    IF b = I32_MIN
    THEN [v |-> I32_add(a, I32_MIN).v, o |-> a >= 0]
    ELSE I32_add(a, -b)

\* a * n for n >= 0, by doubling: a * n = 2 * (a * (n / 2)) + a * (n % 2)
RECURSIVE I32_mul_nat(_, _)
I32_mul_nat(a, n) ==
    IF n = 0 THEN [v |-> 0, o |-> FALSE]
    ELSE LET h == I32_mul_nat(a, n \div 2)
             d == I32_add(h.v, h.v)
             s == IF n % 2 = 1 THEN I32_add(d.v, a) ELSE d
         IN  [v |-> s.v, o |-> h.o \/ d.o \/ s.o]

\* a * b
I32_mul(a, b) ==
    IF b >= 0 THEN I32_mul_nat(a, b)
    ELSE IF a >= 0 THEN I32_mul_nat(b, a)
    ELSE IF a = I32_MIN THEN [v |-> IF b % 2 = 1 THEN I32_MIN ELSE 0, o |-> TRUE]
    ELSE IF b = I32_MIN THEN [v |-> IF a % 2 = 1 THEN I32_MIN ELSE 0, o |-> TRUE]
    ELSE I32_mul_nat(-a, -b)

\* a / b for b # 0 and not i32::MIN / -1: the quotient truncated toward zero
I32_div(a, b) ==
    LET Q(x, y) == \* y > 0
            IF x >= 0 \/ x % y = 0 THEN x \div y ELSE (x \div y) + 1
    IN  IF b > 0 THEN Q(a, b)
        ELSE IF b = I32_MIN THEN (IF a = I32_MIN THEN 1 ELSE 0)
        ELSE -Q(a, -b)

\* what an arithmetic operator that overflowed leaves: a panic of the
\* build with overflow checks, the wrapped value of the build without
Checked(r) == IF r.o /\ overflow_checks THEN "panic" ELSE "ok"

---------------------------------------------------------------------------
(* handle_op_code: constants, integer arithmetic and the typed array arms  *)

DataType_Float(n) == DT("Float", n)

DataType_Null == DT("Null", 0)

\* 0x10 bipush: byte.into() of the u8 that read_u8 returned
H_bipush(cd) ==
    HR("ok", WithOps(Push(Frame.op_stack, DataType_Int(Byte(cd, 1)))), heap, 2)

\* 0x0b..=0x0d fconst_<f>
H_fconst(cd) ==
    HR("ok", WithOps(Push(Frame.op_stack, DataType_Float(Opcode(cd) - 11))), heap, 1)

\* the two pops of a binary integer operator: first, then second
PopInts ==
    LET p1 == Pop(Frame.op_stack)
        p2 == Pop(p1.os)
    IN  IF ~p1.some \/ p1.v.t # "Int" THEN [ok |-> FALSE, first |-> 0, second |-> 0, os |-> p1.os]
        ELSE IF ~p2.some \/ p2.v.t # "Int"
             THEN [ok |-> FALSE, first |-> 0, second |-> 0, os |-> p2.os]
        ELSE [ok |-> TRUE, first |-> p1.v.v, second |-> p2.v.v, os |-> p2.os]

\* the push of an arithmetic result r onto os, or the overflow panic
Arith(os, r) ==
    IF Checked(r) = "panic" THEN HR("panic", WithOps(os), heap, 1)
    ELSE HR("ok", WithOps(Push(os, DataType_Int(r.v))), heap, 1)

\* 0x60 iadd: pop a, pop b, push a + b
H_iadd(cd) ==
    LET p == PopInts IN
    IF ~p.ok THEN HR("err", WithOps(p.os), heap, 1)
    ELSE Arith(p.os, I32_add(p.first, p.second))

\* a variant of isub that subtracts the deeper operand from the top one
H_isub_Swapped(cd) ==
    LET p == PopInts IN
    IF ~p.ok THEN HR("err", WithOps(p.os), heap, 1)
    ELSE Arith(p.os, I32_sub(p.first, p.second))

\* 0x64 isub: pop b, pop a, push a - b
H_isub(cd) ==
    LET p == PopInts IN
    IF ~p.ok THEN HR("err", WithOps(p.os), heap, 1)
    ELSE Arith(p.os, I32_sub(p.second, p.first))

\* 0x68 imul: pop a, pop b, push a * b
H_imul(cd) ==
    LET p == PopInts IN
    IF ~p.ok THEN HR("err", WithOps(p.os), heap, 1)
    ELSE Arith(p.os, I32_mul(p.first, p.second))

\* 0x74 ineg: pop a, push -a
H_ineg(cd) ==
    LET p == Pop(Frame.op_stack) IN
    IF ~p.some \/ p.v.t # "Int" THEN HR("err", WithOps(p.os), heap, 1)
    ELSE Arith(p.os, I32_neg(p.v.v))

\* 0x6c idiv: pop a, pop b, push a / b
H_idiv(cd) ==
    LET p == PopInts IN
    IF ~p.ok THEN HR("err", WithOps(p.os), heap, 1)
    ELSE IF p.second = 0 \/ (p.first = I32_MIN /\ p.second = -1)
         THEN HR("panic", WithOps(p.os), heap, 1)
    ELSE HR("ok", WithOps(Push(p.os, DataType_Int(I32_div(p.first, p.second)))), heap, 1)

\* the arms baload, faload and iaload, which are the same code: pop the Int
\* index, pop the ArrayReference, push get_array(arrayref)?.get(index)
H_xaload(cd) ==
    LET p1 == Pop(Frame.op_stack)
        p2 == Pop(p1.os)
    IN  IF ~p1.some \/ p1.v.t # "Int" THEN HR("err", WithOps(p1.os), heap, 1)
        ELSE IF ~p2.some \/ p2.v.t # "ArrayReference" THEN HR("err", WithOps(p2.os), heap, 1)
        ELSE LET g == Heap_get_array(heap, p2.v.v) IN
             IF ~g.ok THEN HR("err", WithOps(p2.os), heap, 1)
             ELSE LET e == Array_get(g.arr, p1.v.v) IN
                  IF e.kind # "ok" THEN HR("panic", WithOps(p2.os), heap, 1)
                  ELSE HR("ok", WithOps(Push(p2.os, e.val)), heap, 1)

\* the arms bastore and iastore (ty = "Int") and fastore (ty = "Float"): pop
\* the value of that type, the Int index and the ArrayReference, then
\* get_array_mut(arrayref)?.set(index, value)?
H_xastore(cd, ty) ==
    LET p1 == Pop(Frame.op_stack)
        p2 == Pop(p1.os)
        p3 == Pop(p2.os)
    IN  IF ~p1.some \/ p1.v.t # ty THEN HR("err", WithOps(p1.os), heap, 1)
        ELSE IF ~p2.some \/ p2.v.t # "Int" THEN HR("err", WithOps(p2.os), heap, 1)
        ELSE IF ~p3.some \/ p3.v.t # "ArrayReference" THEN HR("err", WithOps(p3.os), heap, 1)
        ELSE LET g == Heap_get_array(heap, p3.v.v) IN
             IF ~g.ok THEN HR("err", WithOps(p3.os), heap, 1)
             ELSE LET s == Array_set(g.arr, p2.v.v, p1.v) IN
                  IF s.kind # "ok" THEN HR(s.kind, WithOps(p3.os), heap, 1)
                  ELSE [HR("ok", WithOps(p3.os),
                           [heap EXCEPT ![p3.v.v + 1].arr = s.arr], 1)
                        EXCEPT !.store = [ref |-> p3.v.v, index |-> p2.v.v,
                                          value |-> p1.v.v]]

\* 0x32 aaload: a Null array reference is todo!("NPE"); &jvm.heap[i] panics
\* beyond the cells
H_aaload(cd) ==
    LET p1 == Pop(Frame.op_stack)
        p2 == Pop(p1.os)
    IN  IF ~p1.some \/ p1.v.t # "Int" THEN HR("err", WithOps(p1.os), heap, 1)
        ELSE IF ~p2.some THEN HR("err", WithOps(p2.os), heap, 1)
        ELSE IF p2.v.t = "Null" THEN HR("panic", WithOps(p2.os), heap, 1)
        ELSE IF p2.v.t # "ArrayReference" THEN HR("err", WithOps(p2.os), heap, 1)
        ELSE IF p2.v.v >= Len(heap) THEN HR("panic", WithOps(p2.os), heap, 1)
        ELSE IF heap[p2.v.v + 1].kind # "Array" THEN HR("err", WithOps(p2.os), heap, 1)
        ELSE LET e == Array_get(heap[p2.v.v + 1].arr, p1.v.v) IN
             IF e.kind # "ok" THEN HR("panic", WithOps(p2.os), heap, 1)
             ELSE HR("ok", WithOps(Push(p2.os, e.val)), heap, 1)

\* 0x53 aastore: the value is of any type; a Null array reference is
\* todo!("NPE")
H_aastore(cd) ==
    LET p1 == Pop(Frame.op_stack)
        p2 == Pop(p1.os)
        p3 == Pop(p2.os)
    IN  IF ~p1.some THEN HR("err", WithOps(p1.os), heap, 1)
        ELSE IF ~p2.some \/ p2.v.t # "Int" THEN HR("err", WithOps(p2.os), heap, 1)
        ELSE IF ~p3.some THEN HR("err", WithOps(p3.os), heap, 1)
        ELSE IF p3.v.t = "Null" THEN HR("panic", WithOps(p3.os), heap, 1)
        ELSE IF p3.v.t # "ArrayReference" THEN HR("err", WithOps(p3.os), heap, 1)
        ELSE IF p3.v.v >= Len(heap) THEN HR("panic", WithOps(p3.os), heap, 1)
        ELSE IF heap[p3.v.v + 1].kind # "Array" THEN HR("err", WithOps(p3.os), heap, 1)
        ELSE LET s == Array_set(heap[p3.v.v + 1].arr, p2.v.v, p1.v) IN
             IF s.kind # "ok" THEN HR(s.kind, WithOps(p3.os), heap, 1)
             ELSE [HR("ok", WithOps(p3.os), [heap EXCEPT ![p3.v.v + 1].arr = s.arr], 1)
                   EXCEPT !.store = [ref |-> p3.v.v, index |-> p2.v.v, value |-> p1.v.v]]

\* 0x0 nop
H_nop(cd) == HR("ok", stack, heap, 1)

\* 0x19 aload: the index is read, then variables[n] is pushed
H_aload(cd) ==
    LET n == Byte(cd, 1) IN
    IF n >= Len(Frame.variables) THEN HR("panic", stack, heap, 2)
    ELSE HR("ok", WithOps(Push(Frame.op_stack, Frame.variables[n + 1])), heap, 2)

\* 0x3a astore: the value is popped, then the index is read
H_astore(cd) ==
    LET p == Pop(Frame.op_stack)
        n == Byte(cd, 1)
    IN  IF ~p.some THEN HR("err", stack, heap, 1)
        ELSE IF n >= Len(Frame.variables) THEN HR("panic", WithOps(p.os), heap, 2)
        ELSE HR("ok", [stack EXCEPT ![SF + 1].op_stack = p.os,
                                    ![SF + 1].variables[n + 1] = p.v], heap, 2)

\* 0x36 istore and 0x38 fstore: the index is read, then the value is popped
H_xstore(cd) ==
    LET idx == Byte(cd, 1)
        p == Pop(Frame.op_stack)
    IN  IF ~p.some THEN HR("err", stack, heap, 2)
        ELSE IF idx >= Len(Frame.variables) THEN HR("panic", WithOps(p.os), heap, 2)
        ELSE HR("ok", [stack EXCEPT ![SF + 1].op_stack = p.os,
                                    ![SF + 1].variables[idx + 1] = p.v], heap, 2)

\* the arms that return Ok or Err themselves
ImplementedOpcodes ==
    {0, 50, 83, 25} \cup (42..45) \cup {58} \cup (75..78) \cup {51, 84, 16, 89, 48, 81}
    \cup (11..13) \cup {56} \cup (67..70) \cup {96, 46, 126, 79} \cup (2..8)
    \cup {108} \cup (26..29) \cup {104, 116, 184, 128, 172, 54} \cup (59..62)
    \cup {100, 188, 87, 177}

\* the arms that are empty and fall through to the todo!() that ends
\* handle_op_code, and jsr, jsr_w and ret, which panic: all but getstatic
PanickingOpcodes == (0..255) \ (ImplementedOpcodes \cup {178})

H_todo(cd) == HR("panic", stack, heap, 1)

Iconst == Fetching /\ \E cd \in CodeChoices :
    Opcode(cd) \in 2..8 /\ \E r \in {H_iconst(cd)} : Commit(cd, r, "iconst", Opcode(cd) - 3)

PopOp == Fetching /\ \E cd \in CodeChoices :
    Opcode(cd) = 87 /\ \E r \in {H_pop(cd)} : Commit(cd, r, "pop", 0)

Dup == Fetching /\ \E cd \in CodeChoices :
    Opcode(cd) = 89 /\ \E r \in {H_dup(cd)} : Commit(cd, r, "dup", 0)

Iload_n == Fetching /\ \E cd \in CodeChoices :
    Opcode(cd) \in 26..29 /\ \E r \in {H_iload_n(cd)} : Commit(cd, r, "iload_n", Opcode(cd) - 26)

Newarray == Fetching /\ \E cd \in CodeChoices :
    Opcode(cd) = 188 /\ \E r \in {H_newarray(cd)} : Commit(cd, r, "newarray", Byte(cd, 1))

Iastore == Fetching /\ \E cd \in CodeChoices :
    Opcode(cd) = 79 /\ \E r \in {H_iastore(cd)} : Commit(cd, r, "iastore", 0)

Iaload == Fetching /\ \E cd \in CodeChoices :
    Opcode(cd) = 46 /\ \E r \in {H_iaload(cd)} : Commit(cd, r, "iaload", 0)

Ireturn == Fetching /\ \E cd \in CodeChoices :
    Opcode(cd) = Op_ireturn /\ \E r \in {H_ireturn(cd)} : Commit(cd, r, "ireturn", 0)

Return == Fetching /\ \E cd \in CodeChoices :
    Opcode(cd) = Op_return /\ \E r \in {H_return(cd)} : Commit(cd, r, "return", 0)

Unimplemented == Fetching /\ \E cd \in CodeChoices :
    Opcode(cd) \in PanickingOpcodes /\ \E r \in {H_todo(cd)} : Commit(cd, r, "todo", Opcode(cd))

Bipush == Fetching /\ \E cd \in CodeChoices :
    Opcode(cd) = 16 /\ \E r \in {H_bipush(cd)} : Commit(cd, r, "bipush", Byte(cd, 1))

Fconst == Fetching /\ \E cd \in CodeChoices :
    Opcode(cd) \in 11..13 /\ \E r \in {H_fconst(cd)} : Commit(cd, r, "fconst", Opcode(cd) - 11)

Iadd == Fetching /\ \E cd \in CodeChoices :
    Opcode(cd) = 96 /\ \E r \in {H_iadd(cd)} : Commit(cd, r, "iadd", 0)

Isub == Fetching /\ \E cd \in CodeChoices :
    Opcode(cd) = 100 /\ \E r \in {H_isub(cd)} : Commit(cd, r, "isub", 0)

Imul == Fetching /\ \E cd \in CodeChoices :
    Opcode(cd) = 104 /\ \E r \in {H_imul(cd)} : Commit(cd, r, "imul", 0)

Ineg == Fetching /\ \E cd \in CodeChoices :
    Opcode(cd) = 116 /\ \E r \in {H_ineg(cd)} : Commit(cd, r, "ineg", 0)

Idiv == Fetching /\ \E cd \in CodeChoices :
    Opcode(cd) = 108 /\ \E r \in {H_idiv(cd)} : Commit(cd, r, "idiv", 0)

Baload == Fetching /\ \E cd \in CodeChoices :
    Opcode(cd) = 51 /\ \E r \in {H_xaload(cd)} : Commit(cd, r, "baload", 0)

Bastore == Fetching /\ \E cd \in CodeChoices :
    Opcode(cd) = 84 /\ \E r \in {H_xastore(cd, "Int")} : Commit(cd, r, "bastore", 0)

Faload == Fetching /\ \E cd \in CodeChoices :
    Opcode(cd) = 48 /\ \E r \in {H_xaload(cd)} : Commit(cd, r, "faload", 0)

Fastore == Fetching /\ \E cd \in CodeChoices :
    Opcode(cd) = 81 /\ \E r \in {H_xastore(cd, "Float")} : Commit(cd, r, "fastore", 0)

Aaload == Fetching /\ \E cd \in CodeChoices :
    Opcode(cd) = 50 /\ \E r \in {H_aaload(cd)} : Commit(cd, r, "aaload", 0)

Aastore == Fetching /\ \E cd \in CodeChoices :
    Opcode(cd) = 83 /\ \E r \in {H_aastore(cd)} : Commit(cd, r, "aastore", 0)

Nop == Fetching /\ \E cd \in CodeChoices :
    Opcode(cd) = 0 /\ \E r \in {H_nop(cd)} : Commit(cd, r, "nop", 0)

Aload == Fetching /\ \E cd \in CodeChoices :
    Opcode(cd) = 25 /\ \E r \in {H_aload(cd)} : Commit(cd, r, "aload", Byte(cd, 1))

Astore == Fetching /\ \E cd \in CodeChoices :
    Opcode(cd) = 58 /\ \E r \in {H_astore(cd)} : Commit(cd, r, "astore", Byte(cd, 1))

Istore == Fetching /\ \E cd \in CodeChoices :
    Opcode(cd) = 54 /\ \E r \in {H_xstore(cd)} : Commit(cd, r, "istore", Byte(cd, 1))

Fstore == Fetching /\ \E cd \in CodeChoices :
    Opcode(cd) = 56 /\ \E r \in {H_xstore(cd)} : Commit(cd, r, "fstore", Byte(cd, 1))

---------------------------------------------------------------------------
(* The handlers that call run_code, and what follows run_code's return     *)

\* a run_code activation: who called it, its curr_class, the method whose
\* code it runs, its `stack_frame`; for one under init_class the class being
\* initialised; and (observations) the call stack before the instruction
\* that made the call and, of an invokestatic, the number of parameters
Activation(via, class, method, stack_frame, init, pre_stack) ==
    [via |-> via, class |-> class, method |-> method, stack_frame |-> stack_frame,
     init |-> init, pre_stack |-> pre_stack, nargs |-> 0]

\* constant_pool[n - 1] of wire index n; an index outside the pool panics
PoolHas(n) == n >= 1 /\ n <= Len(ConstantPool)

\* the (class name, name, descriptor) a MethodRef or FieldRef resolves to
Resolve(index, tag) ==
    LET bad == [ok |-> FALSE, class |-> "", name |-> "", descriptor |-> ""] IN
    IF ~PoolHas(index) THEN bad
    ELSE LET c == ConstantPool[index] IN
         IF c.tag # tag \/ ~PoolHas(c.a) \/ ~PoolHas(c.b) THEN bad
         ELSE LET cls == ConstantPool[c.a]
                  nt == ConstantPool[c.b]
              IN  IF cls.tag # "Class" \/ nt.tag # "NameAndType" THEN bad
                  ELSE [ok |-> TRUE, class |-> ConstantPool[cls.a].string,
                        name |-> ConstantPool[nt.a].string,
                        descriptor |-> ConstantPool[nt.b].string]

\* a variant of the argument transfer that stores the i-th popped operand
\* in variables[i]
RECURSIVE TransferArgs_Reversed(_, _, _, _)
TransferArgs_Reversed(i, k, os, variables) ==
    IF i >= k THEN [kind |-> "ok", os |-> os, variables |-> variables]
    ELSE LET p == Pop(os) IN
         IF ~p.some THEN [kind |-> "err", os |-> os, variables |-> variables]
         ELSE TransferArgs_Reversed(i + 1, k, p.os, [variables EXCEPT ![i + 1] = p.v])

\* the `for i in 0..md.params.len()` loop of invokestatic: the i-th popped
\* operand goes to variables[k - i - 1]
RECURSIVE TransferArgs(_, _, _, _)
TransferArgs(i, k, os, variables) ==
    IF i >= k THEN [kind |-> "ok", os |-> os, variables |-> variables]
    ELSE LET p == Pop(os) IN
         IF ~p.some THEN [kind |-> "err", os |-> os, variables |-> variables]
         ELSE IF k - i - 1 >= Len(variables)
              THEN [kind |-> "panic", os |-> p.os, variables |-> variables]
         ELSE TransferArgs(i + 1, k, p.os, [variables EXCEPT ![k - i] = p.v])

\* 0xb8 invokestatic, up to the call of run_code: the outcome, the caller's
\* operand stack, the new frame, and the method and its class
H_invokestatic(cd) ==
    LET r == Resolve(U16(cd), "MethodRef")
        none == [kind |-> "panic", os |-> Frame.op_stack, frame |-> NoFrame,
                 class |-> "", method |-> "", nargs |-> 0]
    IN  IF ~r.ok \/ r.class \notin ClassNames THEN none
        ELSE LET f == FindMethod(r.class, r.name, r.descriptor)
             IN  IF ~f.some THEN [none EXCEPT !.kind = "err"]
                 ELSE IF "NATIVE" \in f.m.access_flags THEN none
                 ELSE IF ~f.m.has_code THEN [none EXCEPT !.kind = "err"]
                 ELSE LET md == MethodDescriptor_from_str(Chars(f.m.descriptor)) IN
                      IF ~md.ok THEN [none EXCEPT !.kind = "err"]
                      ELSE LET new == StackFrame_for_method(f.m)
                               a == TransferArgs(0, Len(md.params), Frame.op_stack,
                                                 new.variables)
                           IN  [kind |-> a.kind, os |-> a.os,
                                frame |-> [new EXCEPT !.variables = a.variables],
                                class |-> r.class, method |-> f.m.id,
                                nargs |-> Len(md.params)]

Invokestatic == Fetching /\ \E cd \in CodeChoices :
    /\ Opcode(cd) = 184
    /\ \E h \in {H_invokestatic(cd)} :
       /\ code' = cd
       /\ last' = Obs("invokestatic", h.kind, U16(cd))
       /\ IF h.kind = "ok"
          THEN /\ Len(stack) < MaxFrames
               /\ stack' = Append(WithOps(h.os), h.frame)
               /\ calls' = Append(calls,
                                  [Activation("invokestatic", h.class, h.method,
                                              Len(stack), "", stack)
                                   EXCEPT !.nargs = h.nargs])
               /\ UNCHANGED <<heap, pcn, status, jres, ilog>>
          ELSE /\ Failed(h.kind, WithOps(h.os), heap)
               /\ ilog' = IF h.kind = "err" THEN ilog \o UnwoundInits(calls) ELSE ilog
    /\ UNCHANGED <<classes, menu, limit, overflow_checks, stored, clinit_runs, max_size, hlast, dvars, cvars>>

\* run_code returned Ok to the invokestatic arm, which returns Ok to the
\* loop of the caller's run_code: its cursor is 3 bytes past the opcode
InvokestaticReturn ==
    /\ status = "running" /\ pcn = "ret" /\ Top.via = "invokestatic"
    /\ \E caller \in {calls[Len(calls) - 1]} : \E t \in {LoopTail(stack, caller, 3, code)} :
           /\ stack' = t.stack
           /\ pcn' = IF t.brk THEN "ret" ELSE "fetch"
           /\ calls' = SubSeq(calls, 1, Len(calls) - 1)
           /\ last' = [op |-> "invokestatic_ret", kind |-> "ok", arg |-> Top.nargs,
                       frame |-> caller.stack_frame, pre_stack |-> Top.pre_stack,
                       pre_heap |-> heap, ended |-> last.op,
                       retv |-> IF last.op = "ireturn"
                                THEN Pop(last.pre_stack[last.frame + 1].op_stack).v
                                ELSE DataType_Empty]
    /\ UNCHANGED <<heap, classes, status, jres, code, menu, limit, overflow_checks, stored, ilog,
                   clinit_runs, max_size, hlast, dvars, cvars>>

\* Jvm::init_class as called by getstatic, up to the call of run_code
H_init_class(class_name) ==
    IF class_name \notin ClassNames THEN [kind |-> "err", why |-> "no class"]
    ELSE IF classes[class_name].initialised THEN [kind |-> "false", why |-> ""]
    ELSE LET f == ClassFile_find_init_method(class_name) IN
         IF ~f.some THEN [kind |-> "err", why |-> "no <clinit>"]
         ELSE IF ~f.m.has_code \/ ~MethodDescriptor_from_str(Chars(f.m.descriptor)).ok
              THEN [kind |-> "err", why |-> "run_method"]
         ELSE [kind |-> "run", why |-> f.m.id]

\* 0xb2 getstatic: resolve the FieldRef and call init_class; when that
\* returns Ok the arm falls through to the todo!() that ends handle_op_code
Getstatic == Fetching /\ \E cd \in CodeChoices :
    /\ Opcode(cd) = 178
    /\ code' = cd
    /\ \E r \in {Resolve(U16(cd), "FieldRef")} : \E i \in {H_init_class(r.class)} :
       LET kind == IF ~r.ok THEN "panic"
                   ELSE IF i.kind = "false" THEN "panic"
                   ELSE IF i.kind = "err" THEN "err" ELSE "ok"
       IN  /\ last' = Obs("getstatic", kind, U16(cd))
           /\ IF ~r.ok
              THEN Failed("panic", stack, heap) /\ UNCHANGED <<ilog, clinit_runs>>
              ELSE CASE i.kind = "false" ->
                          /\ Failed("panic", stack, heap)
                          /\ ilog' = Append(ilog, [class |-> r.class, ret |-> "false",
                                                   why |-> ""])
                          /\ UNCHANGED clinit_runs
                     [] i.kind = "err" ->
                          /\ Failed("err", stack, heap)
                          /\ ilog' = <<[class |-> r.class, ret |-> "Err", why |-> i.why]>>
                                     \o ilog \o UnwoundInits(calls)
                          /\ UNCHANGED clinit_runs
                     [] i.kind = "run" ->
                          LET m == CHOOSE m \in {Methods(r.class)[j] :
                                                   j \in 1..Len(Methods(r.class))} :
                                       m.id = i.why
                          IN  /\ Len(stack) < MaxFrames
                              /\ stack' = Append(stack,
                                                 StackFrame_new(m.max_stack, m.max_locals))
                              /\ calls' = Append(calls, Activation("init_class", r.class,
                                                                   m.id, Len(stack),
                                                                   r.class, stack))
                              /\ clinit_runs' = [clinit_runs EXCEPT ![r.class] = @ + 1]
                              /\ UNCHANGED <<heap, pcn, status, jres, ilog>>
    /\ UNCHANGED <<classes, menu, limit, overflow_checks, stored, max_size, hlast, dvars, cvars>>

\* run_code returned Ok to run_method and that to init_class, which sets the
\* flag and returns Ok(true) to the getstatic arm; the arm falls through to
\* todo!()
InitClassReturn ==
    /\ status = "running" /\ pcn = "ret" /\ Top.via = "init_class"
    /\ classes' = [classes EXCEPT ![Top.init].initialised = TRUE]
    /\ ilog' = Append(ilog, [class |-> Top.init, ret |-> "true", why |-> ""])
    /\ calls' = SubSeq(calls, 1, Len(calls) - 1)
    /\ last' = [op |-> "getstatic_ret", kind |-> "panic", arg |-> 0,
                frame |-> calls[Len(calls) - 1].stack_frame,
                pre_stack |-> Top.pre_stack, pre_heap |-> heap, ended |-> last.op,
                retv |-> DataType_Empty]
    /\ status' = "panic"
    /\ pcn' = "none"
    /\ UNCHANGED <<stack, heap, jres, code, menu, limit, overflow_checks, stored, clinit_runs,
                   max_size, hlast, dvars, cvars>>

\* cursor.read_u8()? at the head of the loop when the code has no byte at
\* pc: a method whose code is empty
FetchPastEnd ==
    /\ Fetching
    /\ Frame.pc >= Len(code[Top.method].bytes)
    /\ Closed(code, Top.method) \/ code[Top.method].n = 0
    /\ code' = [code EXCEPT ![Top.method].closed = TRUE]
    /\ last' = Obs("fetch", "err", 0)
    /\ Failed("err", stack, heap)
    /\ ilog' = ilog \o UnwoundInits(calls)
    /\ UNCHANGED <<classes, menu, limit, overflow_checks, stored, clinit_runs, max_size, hlast, dvars, cvars>>

\* Jvm::run, up to the call of run_code: main() has loaded the classes and
\* set the entry class
EntryClass == "Main"

CallRun ==
    /\ status = "idle"
    /\ LET f == ClassFile_find_entry_point(EntryClass) IN
       IF EntryClass \notin ClassNames \/ ~f.some \/ ~f.m.has_code
          \/ ~MethodDescriptor_from_str(Chars(f.m.descriptor)).ok
       THEN /\ status' = "returned"
            /\ jres' = "Err"
            /\ UNCHANGED <<stack, calls, pcn>>
       ELSE /\ stack' = Append(stack, StackFrame_new(f.m.max_stack, f.m.max_locals))
            /\ calls' = <<Activation("run", EntryClass, f.m.id, Len(stack), "", stack)>>
            /\ pcn' = "fetch"
            /\ status' = "running"
            /\ UNCHANGED jres
    /\ UNCHANGED <<heap, classes, code, menu, limit, overflow_checks, last, stored, ilog, clinit_runs,
                   max_size, hlast, dvars, cvars>>

\* run_code returned Ok to run_method and that to run, which pops a frame
\* (if there is one) and returns Ok
RunReturn ==
    /\ status = "running" /\ pcn = "ret" /\ Top.via = "run"
    /\ stack' = Pop(stack).os
    /\ calls' = <<>>
    /\ pcn' = "none"
    /\ status' = "returned"
    /\ jres' = "Ok"
    /\ UNCHANGED <<heap, classes, code, menu, limit, overflow_checks, last, stored, ilog, clinit_runs,
                   max_size, hlast, dvars, cvars>>

---------------------------------------------------------------------------
(* The parts of the state a specification does not use stay as they are    *)
(* before anything ran.                                                    *)

NoCall == [op |-> "none", atype |-> 0, size |-> 0, index |-> 0,
           pre |-> <<>>, ok |-> FALSE, ret |-> 0]

DescIdle ==
    /\ dstr = <<>>
    /\ dres = MdErr
    /\ dout = <<>>
    /\ dphase = "idle"
    /\ dexp = NoDeriv

HeapIdle ==
    /\ heap = <<>>
    /\ max_size = USIZE_MAX
    /\ hlast = NoCall

NoStore == [ref |-> -1, index |-> -1, value |-> 0]

NoCode == [m \in MethodIds |-> [bytes |-> <<>>, n |-> 0, closed |-> FALSE]]

\* Jvm::new and the class loading of main(): no frame, no class initialised
JvmNew ==
    /\ stack = <<>>
    /\ classes = [c \in ClassNames |-> [initialised |-> FALSE]]
    /\ calls = <<>>
    /\ pcn = "none"
    /\ status = "idle"
    /\ jres = "none"
    /\ code = NoCode
    /\ last = NoObs
    /\ stored = NoStore
    /\ ilog = <<>>
    /\ clinit_runs = [c \in ClassNames |-> 0]

JvmIdle ==
    /\ JvmNew
    /\ menu = {}
    /\ limit = 0
    /\ overflow_checks = FALSE

---------------------------------------------------------------------------
(***************************************************************************)
(* The class file specification: ClassFile::read_from and                  *)
(* Jvm::load_class_from_file on the bytes of a file, and the accessors on  *)
(* the ClassFile read.  The files are the encodings of descriptions: made  *)
(* is the description, wire its bytes.                                     *)
(***************************************************************************)

\* the most constants of a pool made of PoolMenu
MaxPoolEntries == 3

\* the most methods of a class made of MethodMenu
MaxMethods == 2

\* ---- the producer of the files ----

be16(n) == << n \div 256, n % 256 >>

RECURSIVE Flatten(_)
Flatten(ss) == IF ss = << >> THEN << >> ELSE Head(ss) \o Flatten(Tail(ss))

\* constant pool entries: their bytes, the constant they stand for and the
\* number of indices they take
E_Utf8(s) == [bytes |-> <<1>> \o be16(Len(Str_bytes(s))) \o Str_bytes(s),
              c |-> Utf8(s), slots |-> 1]

E_Class(n) == [bytes |-> <<7>> \o be16(n), c |-> ClassConst(n), slots |-> 1]

E_NameAndType(n, d) == [bytes |-> <<12>> \o be16(n) \o be16(d), c |-> NameAndType(n, d),
                        slots |-> 1]

E_Integer == [bytes |-> <<3, 0, 0, 0, 42>>,
              c |-> RawConstant_Num("Integer", <<0, 0, 0, 42>>), slots |-> 1]

E_Long == [bytes |-> <<5, 0, 0, 0, 1, 0, 0, 0, 2>>,
           c |-> RawConstant_Num("Long", <<0, 0, 0, 1, 0, 0, 0, 2>>), slots |-> 2]

E_Double == [bytes |-> <<6, 64, 9, 33, 251, 84, 68, 45, 24>>,
             c |-> RawConstant_Num("Double", <<64, 9, 33, 251, 84, 68, 45, 24>>),
             slots |-> 2]

RECURSIVE SlotsOf(_)
SlotsOf(entries) == IF entries = << >> THEN 0 ELSE Head(entries).slots + SlotsOf(Tail(entries))

\* the wire index of entry j of a pool
WireIndex(entries, j) == 1 + SlotsOf(SubSeq(entries, 1, j - 1))

EncAttribute(a) == be16(a.name) \o <<0, 0>> \o be16(Len(a.info)) \o a.info

EncMember(m) ==
    be16(m.flags) \o be16(m.name) \o be16(m.descriptor) \o be16(Len(m.attributes))
        \o Flatten([i \in 1..Len(m.attributes) |-> EncAttribute(m.attributes[i])])

Encode(d) ==
    LET all == d.magic \o <<0, 0, 0, 52>> \o be16(1 + SlotsOf(d.entries))
                \o Flatten([i \in 1..Len(d.entries) |-> d.entries[i].bytes])
                \o be16(33) \o be16(d.this_class) \o be16(d.super_class)
                \o be16(Len(d.interfaces))
                \o Flatten([i \in 1..Len(d.interfaces) |-> be16(d.interfaces[i])])
                \o be16(Len(d.fields))
                \o Flatten([i \in 1..Len(d.fields) |-> EncMember(d.fields[i])])
                \o be16(Len(d.methods))
                \o Flatten([i \in 1..Len(d.methods) |-> EncMember(d.methods[i])])
                \o be16(Len(d.attributes))
                \o Flatten([i \in 1..Len(d.attributes) |-> EncAttribute(d.attributes[i])])
    IN  IF d.keep < 0 THEN all ELSE SubSeq(all, 1, d.keep)

\* ---- the descriptions ----

\* the pool of the classes with members: Long at 15, nothing at 16
BasePool ==
    << E_Utf8("A"), E_Class(1), E_Utf8("B"), E_Class(3),
       E_Utf8("main"), E_Utf8("([Ljava/lang/String;)V"), E_Utf8("<clinit>"), E_Utf8("()V"),
       E_Utf8("f"), E_Utf8("I"),
       E_Utf8("SourceFile"), E_Utf8("Signature"), E_Utf8("EnclosingMethod"),
       E_Utf8("ConstantValue"),
       E_Long, E_Integer, E_NameAndType(9, 10) >>

\* class A extends B, with no member
Base == [magic |-> Magic, entries |-> BasePool, this_class |-> 2, super_class |-> 4,
         interfaces |-> << >>, fields |-> << >>, methods |-> << >>, attributes |-> << >>,
         keep |-> -1]

Seqs(S, n) == UNION { [1..k -> S] : k \in 0..n }

\* files of one bad magic each, and files cut short
MagicImages ==
    { [Base EXCEPT !.magic = m] :
        m \in { <<222, 173, 190, 239>>, <<202, 254, 186, 191>>, <<203, 254, 186, 190>>,
                <<202, 254, 0, 190>>, <<190, 186, 254, 202>>, <<0, 0, 0, 0>> } }
    \cup { [Base EXCEPT !.magic = m, !.keep = k] :
            m \in { Magic, <<222, 173, 190, 239>> }, k \in {0, 3, 4, 7, 9, 12, 60} }

PoolMenu == { E_Utf8("A"), E_Class(1), E_Integer, E_Long, E_Double }

\* files of the pools made of PoolMenu
PoolImages ==
    { [Base EXCEPT !.entries = es, !.this_class = t] :
        es \in Seqs(PoolMenu, MaxPoolEntries), t \in {2} }

MethodMenu ==
    { [flags |-> f, name |-> 5, descriptor |-> 6, attributes |-> << >>] : f \in {0, 1, 8, 9} }
    \cup { [flags |-> f, name |-> 7, descriptor |-> 8, attributes |-> << >>] : f \in {1, 8} }
    \cup { [flags |-> 9, name |-> 5, descriptor |-> 8, attributes |-> << >>],
           [flags |-> 8, name |-> 7, descriptor |-> 6, attributes |-> << >>],
           [flags |-> 9, name |-> 9, descriptor |-> 8, attributes |-> << >>] }

\* files of the classes whose methods are made of MethodMenu
MethodImages ==
    { [Base EXCEPT !.methods = ms] : ms \in Seqs(MethodMenu, MaxMethods) }

Attr(name, info) == [name |-> name, info |-> info]

\* files of the classes that refer to the pool: the class, its super class,
\* its interfaces, its attributes, and a field f of a ConstantValue
RefImages ==
    { [Base EXCEPT !.this_class = t] : t \in {0, 4, 15, 16, 17} }
    \cup { [Base EXCEPT !.super_class = s] : s \in {0, 2, 15, 16, 18} }
    \cup { [Base EXCEPT !.interfaces = is] :
            is \in { <<2>>, <<4>>, <<2, 4>>, <<0>>, <<16>>, <<17>>, <<18>> } }
    \cup { [Base EXCEPT !.attributes = <<Attr(n, be16(k))>>] :
            n \in {11, 12}, k \in {0, 1, 9, 15, 16, 18} }
    \cup { [Base EXCEPT !.attributes = <<Attr(13, be16(c) \o be16(m))>>] :
            c \in {2, 16}, m \in {0, 16, 18} }
    \cup { [Base EXCEPT
              !.fields = << [flags |-> 25, name |-> 9, descriptor |-> 10,
                             attributes |-> <<Attr(14, be16(k))>>] >>] :
            k \in {0, 15, 16, 17} }

ClassImages == MagicImages \cup PoolImages \cup MethodImages \cup RefImages

\* ---- the specification ----

NoImage == [Base EXCEPT !.entries = << >>, !.keep = 0]

NoFile == [kind |-> "none", v |-> << >>, pos |-> 0, err |-> ""]

NoRes == [op |-> "none", ret |-> APanic]

FileIdle ==
    /\ wire = << >>
    /\ made = NoImage
    /\ class_file = NoFile
    /\ fres = NoRes

InitFile ==
    /\ made \in ClassImages
    /\ wire = Encode(made)
    /\ class_file = NoFile
    /\ fres = NoRes
    \* Jvm::new: no class is loaded
    /\ stack = << >>
    /\ classes = << >>
    /\ calls = << >>
    /\ pcn = "none"
    /\ status = "idle"
    /\ jres = "none"
    /\ code = NoCode
    /\ last = NoObs
    /\ stored = NoStore
    /\ ilog = << >>
    /\ clinit_runs = << >>
    /\ menu = {}
    /\ limit = 0
    /\ overflow_checks = FALSE
    /\ HeapIdle
    /\ DescIdle

FileRest == <<wire, made, stack, calls, pcn, jres, code, menu, limit, overflow_checks,
              last, stored, ilog, clinit_runs, hvars, dvars>>

\* ClassFile::read_from of the file
ReadFrom ==
    /\ status = "idle"
    /\ class_file = NoFile
    /\ \E r \in {ClassFile_read_from(wire)} :
        /\ class_file' = r
        /\ fres' = [op |-> "read_from", ret |-> [kind |-> r.kind, v |-> r.err]]
    /\ UNCHANGED <<classes, status, FileRest>>

\* Jvm::load_class_from_file of the file
LoadClassFromFile ==
    /\ status = "idle"
    /\ class_file = NoFile
    /\ fres.op = "none"
    /\ \E r \in {ClassFile_read_from(wire)} :
        IF r.kind # "Ok"
        THEN /\ fres' = [op |-> "load_class_from_file",
                         ret |-> [kind |-> r.kind, v |-> r.err]]
             /\ status' = IF r.kind = "panic" THEN "panic" ELSE status
             /\ UNCHANGED classes
        ELSE \E name \in {ClassFile_this_class(r.v)} :
             /\ fres' = [op |-> "load_class_from_file", ret |-> name]
             /\ status' = IF name.kind = "panic" THEN "panic" ELSE status
             \* HashMap::insert of Class::new
             /\ classes' = IF name.kind # "Ok" THEN classes
                           ELSE [c \in DOMAIN classes \cup {name.v} |->
                                    IF c = name.v THEN [initialised |-> FALSE]
                                    ELSE classes[c]]
    /\ UNCHANGED <<class_file, FileRest>>

\* a call of an accessor on the ClassFile read
Accessor(op, ret) ==
    /\ status = "idle"
    /\ class_file.kind = "Ok"
    /\ fres' = [op |-> op, ret |-> ret]
    /\ UNCHANGED <<class_file, classes, status, FileRest>>

ThisClass ==
    /\ class_file.kind = "Ok"
    /\ \E r \in {ClassFile_this_class(class_file.v)} : Accessor("this_class", r)

SuperClass ==
    /\ class_file.kind = "Ok"
    /\ \E r \in {ClassFile_super_class(class_file.v)} : Accessor("super_class", r)

\* interfaces(), methods(), fields() and attributes(), each collected
Interfaces ==
    /\ class_file.kind = "Ok"
    /\ \E r \in {ClassFile_interfaces(class_file.v)} : Accessor("interfaces", AOk(r))

MethodsOf ==
    /\ class_file.kind = "Ok"
    /\ \E r \in {ClassFile_methods(class_file.v)} : Accessor("methods", AOk(r))

FieldsOf ==
    /\ class_file.kind = "Ok"
    /\ \E r \in {ClassFile_fields(class_file.v)} : Accessor("fields", AOk(r))

AttributesOf ==
    /\ class_file.kind = "Ok"
    /\ \E r \in {Attributes(class_file.v.attributes, class_file.v.constant_pool)} :
        Accessor("attributes", AOk(r))

\* Field::attributes() of the first field, collected
FieldAttributes ==
    /\ class_file.kind = "Ok"
    /\ Len(class_file.v.fields) > 0
    /\ \E r \in {Attributes(class_file.v.fields[1].attributes, class_file.v.constant_pool)} :
        Accessor("field_attributes", AOk(r))

FindEntryPoint ==
    /\ class_file.kind = "Ok"
    /\ \E r \in {find_entry_point(class_file.v)} : Accessor("find_entry_point", r)

FindInitMethod ==
    /\ class_file.kind = "Ok"
    /\ \E r \in {find_init_method(class_file.v)} : Accessor("find_init_method", r)

NextFile ==
    \/ ReadFrom
    \/ LoadClassFromFile
    \/ ThisClass
    \/ SuperClass
    \/ Interfaces
    \/ MethodsOf
    \/ FieldsOf
    \/ AttributesOf
    \/ FieldAttributes
    \/ FindEntryPoint
    \/ FindInitMethod

SpecFile == InitFile /\ [][NextFile]_vars

---------------------------------------------------------------------------
(* The interpreter specifications: Jvm::run on the loaded classes, over    *)
(* the programs made of a menu of instructions.                            *)

\* most instructions of a program in the specification of array access
MaxArrInstrs == 8

\* most instructions of a program in the specification of newarray
MaxNewInstrs == 3

\* calls and class initialisation: iconst_0, iconst_1, invokestatic of
\* Main.f (constant 10), Main.g (constant 14) and A.h (constant 18),
\* getstatic of A.x (constant 22) and B.x (constant 23), ireturn and return
CallMenu ==
    { <<3>>, <<4>>, <<184, 0, 10>>, <<184, 0, 14>>, <<184, 0, 18>>,
      <<178, 0, 22>>, <<178, 0, 23>>, <<Op_ireturn>>, <<Op_return>> }

\* array access: iconst_1, iconst_2, newarray int, dup, iastore, iaload
ArrMenu == { <<4>>, <<5>>, <<188, 10>>, <<89>>, <<79>>, <<46>> }

\* newarray of every atype from 3 to 12, after iconst_0 or iconst_2
NewMenu == { <<3>>, <<5>> } \cup { <<188, atype>> : atype \in 3..12 }

Init ==
    /\ JvmNew
    /\ menu = CallMenu
    /\ limit = MaxCallInstrs
    /\ overflow_checks = FALSE
    /\ HeapIdle
    /\ DescIdle
    /\ FileIdle

Next ==
    \/ CallRun
    \/ Iconst
    \/ Invokestatic
    \/ InvokestaticReturn
    \/ Getstatic
    \/ InitClassReturn
    \/ Ireturn
    \/ Return
    \/ FetchPastEnd
    \/ RunReturn

Spec == Init /\ [][Next]_vars

InitArr ==
    /\ JvmNew
    /\ menu = ArrMenu
    /\ limit = MaxArrInstrs
    /\ overflow_checks = FALSE
    /\ HeapIdle
    /\ DescIdle
    /\ FileIdle

NextArr ==
    \/ CallRun
    \/ Iconst
    \/ Newarray
    \/ Dup
    \/ Iastore
    \/ Iaload
    \/ RunReturn

SpecArr == InitArr /\ [][NextArr]_vars

InitNew ==
    /\ JvmNew
    /\ menu = NewMenu
    /\ limit = MaxNewInstrs
    /\ overflow_checks = FALSE
    /\ HeapIdle
    /\ DescIdle
    /\ FileIdle

NextNew ==
    \/ CallRun
    \/ Iconst
    \/ Newarray
    \/ RunReturn

SpecNew == InitNew /\ [][NextNew]_vars

\* most instructions of a program in the specification of operand order
MaxArithInstrs == 4

\* most instructions of a program in the specification of overflow
MaxOvfInstrs == 5

\* most menu entries of a program in the specification of byte and boolean
\* arrays
MaxByteInstrs == 5

\* most instructions of a program in the specification of array stores
MaxSetInstrs == 5

\* most instructions of a program in the specification of bipush
MaxPushInstrs == 1

\* most instructions of a program in the specification of the empty arms
MaxTodoInstrs == 2

\* operand order: iconst_0, iconst_3, iconst_5, bipush 6, isub, idiv
ArithMenu == { <<3>>, <<6>>, <<8>>, <<16, 6>>, <<100>>, <<108>> }

\* overflow: bipush 255, dup, iadd, isub, imul, ineg
OvfMenu == { <<16, 255>>, <<89>>, <<96>>, <<100>>, <<104>>, <<116>> }

\* byte and boolean arrays: the runs `iconst_1; newarray boolean; dup; iconst_0`
\* and `iconst_1; newarray byte; dup; iconst_0`, which leave a reference to a
\* new array of one element, the reference again and the index 0; iconst_0,
\* iconst_1, bipush 128, bipush 255, bastore, baload
ByteMenu ==
    { <<4, 188, 4, 89, 3>>, <<4, 188, 8, 89, 3>>,
      <<3>>, <<4>>, <<16, 128>>, <<16, 255>>, <<84>>, <<51>> }

\* array stores: iconst_0, iconst_1, fconst_1, newarray char, newarray float,
\* newarray int, iastore, fastore
SetMenu == { <<3>>, <<4>>, <<12>>, <<188, 5>>, <<188, 6>>, <<188, 10>>, <<79>>, <<81>> }

\* bipush of every byte
PushMenu == { <<16, b>> : b \in 0..255 }

\* the empty arms: every opcode that ends in todo!() or panics, iconst_0, and
\* the array loads and stores
TodoMenu ==
    { <<op>> : op \in PanickingOpcodes } \cup
    { <<3>>, <<50>>, <<83>>, <<51>>, <<84>>, <<48>>, <<81>>, <<46>>, <<79>> }

InitArith ==
    /\ JvmNew
    /\ menu = ArithMenu
    /\ limit = MaxArithInstrs
    /\ overflow_checks \in BOOLEAN
    /\ HeapIdle
    /\ DescIdle
    /\ FileIdle

NextArith ==
    \/ CallRun
    \/ Iconst
    \/ Bipush
    \/ Isub
    \/ Idiv
    \/ RunReturn

SpecArith == InitArith /\ [][NextArith]_vars

InitOvf ==
    /\ JvmNew
    /\ menu = OvfMenu
    /\ limit = MaxOvfInstrs
    /\ overflow_checks \in BOOLEAN
    /\ HeapIdle
    /\ DescIdle
    /\ FileIdle

NextOvf ==
    \/ CallRun
    \/ Bipush
    \/ Dup
    \/ Iadd
    \/ Isub
    \/ Imul
    \/ Ineg
    \/ RunReturn

SpecOvf == InitOvf /\ [][NextOvf]_vars

InitByte ==
    /\ JvmNew
    /\ menu = ByteMenu
    /\ limit = MaxByteInstrs
    /\ overflow_checks = FALSE
    /\ HeapIdle
    /\ DescIdle
    /\ FileIdle

NextByte ==
    \/ CallRun
    \/ Iconst
    \/ Bipush
    \/ Newarray
    \/ Dup
    \/ Bastore
    \/ Baload
    \/ RunReturn

SpecByte == InitByte /\ [][NextByte]_vars

InitSet ==
    /\ JvmNew
    /\ menu = SetMenu
    /\ limit = MaxSetInstrs
    /\ overflow_checks = FALSE
    /\ HeapIdle
    /\ DescIdle
    /\ FileIdle

NextSet ==
    \/ CallRun
    \/ Iconst
    \/ Fconst
    \/ Newarray
    \/ Iastore
    \/ Fastore
    \/ RunReturn

SpecSet == InitSet /\ [][NextSet]_vars

InitPush ==
    /\ JvmNew
    /\ menu = PushMenu
    /\ limit = MaxPushInstrs
    /\ overflow_checks = FALSE
    /\ HeapIdle
    /\ DescIdle
    /\ FileIdle

NextPush ==
    \/ CallRun
    \/ Bipush
    \/ RunReturn

SpecPush == InitPush /\ [][NextPush]_vars

InitTodo ==
    /\ JvmNew
    /\ menu = TodoMenu
    /\ limit = MaxTodoInstrs
    /\ overflow_checks = FALSE
    /\ HeapIdle
    /\ DescIdle
    /\ FileIdle

NextTodo ==
    \/ CallRun
    \/ Iconst
    \/ Unimplemented
    \/ Aaload
    \/ Aastore
    \/ Baload
    \/ Bastore
    \/ Faload
    \/ Fastore
    \/ Iaload
    \/ Iastore
    \/ RunReturn

SpecTodo == InitTodo /\ [][NextTodo]_vars

\* most menu entries of a program in the specification of the pc
MaxPcInstrs == 4

\* nop, iconst_1, dup, iadd, bipush 5, newarray int, iastore, iaload,
\* aload 0, astore 0, istore 0, fstore 0, invokestatic Main.g:()I, and the
\* run iconst_1; newarray int; iconst_0 that readies an array access
PcMenu ==
    { <<0>>, <<4>>, <<89>>, <<96>>, <<16, 5>>, <<188, 10>>, <<79>>, <<46>>,
      <<25, 0>>, <<58, 0>>, <<54, 0>>, <<56, 0>>, <<184, 0, 14>>, <<4, 188, 10, 3>> }

InitPc ==
    /\ JvmNew
    /\ menu = PcMenu
    /\ limit = MaxPcInstrs
    /\ overflow_checks = FALSE
    /\ HeapIdle
    /\ DescIdle
    /\ FileIdle

NextPc ==
    \/ CallRun
    \/ Nop
    \/ Iconst
    \/ Dup
    \/ Iadd
    \/ Bipush
    \/ Newarray
    \/ Iastore
    \/ Iaload
    \/ Aload
    \/ Astore
    \/ Istore
    \/ Fstore
    \/ Invokestatic
    \/ InvokestaticReturn
    \/ FetchPastEnd
    \/ RunReturn

SpecPc == InitPc /\ [][NextPc]_vars

\* most instructions of a program in the specification of loads followed by
\* arithmetic
MaxFoldInstrs == 4

\* loads followed by arithmetic: iconst_1; newarray char or short; dup;
\* iconst_0, and iconst_1; newarray boolean or byte; dup; iconst_0; a value;
\* bastore; iconst_0, then baload, iconst_1, iadd
FoldMenu ==
    { <<4, 188, atype, 89, 3>> : atype \in {5, 9} }
    \cup { <<4, 188, atype, 89, 3>> \o value \o <<84, 3>> :
              atype \in {4, 8}, value \in { <<4>>, <<16, 255>> } }
    \cup { <<51>>, <<4>>, <<96>> }

InitFold ==
    /\ JvmNew
    /\ menu = FoldMenu
    /\ limit = MaxFoldInstrs
    /\ overflow_checks = FALSE
    /\ HeapIdle
    /\ DescIdle
    /\ FileIdle

NextFold ==
    \/ CallRun
    \/ Iconst
    \/ Bipush
    \/ Newarray
    \/ Dup
    \/ Bastore
    \/ Baload
    \/ Iadd
    \/ RunReturn

SpecFold == InitFold /\ [][NextFold]_vars

\* most instructions of a program in the specification of pops
MaxPopInstrs == 3

\* pops of operands: iconst_0, pop, dup, istore 0, astore 0, iadd, ineg,
\* ireturn, invokestatic Main.g:()I
PopMenu ==
    { <<3>>, <<87>>, <<89>>, <<54, 0>>, <<58, 0>>, <<96>>, <<116>>, <<Op_ireturn>>,
      <<184, 0, 14>> }

InitPop ==
    /\ JvmNew
    /\ menu = PopMenu
    /\ limit = MaxPopInstrs
    /\ overflow_checks = FALSE
    /\ HeapIdle
    /\ DescIdle
    /\ FileIdle

NextPop ==
    \/ CallRun
    \/ Iconst
    \/ PopOp
    \/ Dup
    \/ Istore
    \/ Astore
    \/ Iadd
    \/ Ineg
    \/ Ireturn
    \/ Invokestatic
    \/ InvokestaticReturn
    \/ FetchPastEnd
    \/ RunReturn

SpecPop == InitPop /\ [][NextPop]_vars

\* most instructions of a program in the specification of indices
MaxRangeInstrs == 5

\* indices out of range: iconst_m1, iconst_0, iconst_1, newarray int, dup,
\* iastore, iaload, iload_0, iload_1, aload 1, astore 1, istore 1
RangeMenu ==
    { <<2>>, <<3>>, <<4>>, <<188, 10>>, <<89>>, <<79>>, <<46>>, <<26>>, <<27>>,
      <<25, 1>>, <<58, 1>>, <<54, 1>> }

InitRange ==
    /\ JvmNew
    /\ menu = RangeMenu
    /\ limit = MaxRangeInstrs
    /\ overflow_checks = FALSE
    /\ HeapIdle
    /\ DescIdle
    /\ FileIdle

NextRange ==
    \/ CallRun
    \/ Iconst
    \/ Newarray
    \/ Dup
    \/ Iastore
    \/ Iaload
    \/ Iload_n
    \/ Aload
    \/ Astore
    \/ Istore
    \/ RunReturn

SpecRange == InitRange /\ [][NextRange]_vars

\* most menu entries of a program in the specification of the frames
MaxIsoInstrs == 4

\* iconst_1, pop, dup, iadd, istore 0, newarray int, iastore, invokestatic
\* Main.g:()I (constant 14), getstatic A.x (constant 22), ireturn, return,
\* and the run iconst_1; newarray int; iconst_0 that readies an array store
IsoMenu ==
    { <<4>>, <<87>>, <<89>>, <<96>>, <<54, 0>>, <<188, 10>>, <<79>>, <<184, 0, 14>>,
      <<178, 0, 22>>, <<Op_ireturn>>, <<Op_return>>, <<4, 188, 10, 3>> }

InitIso ==
    /\ JvmNew
    /\ menu = IsoMenu
    /\ limit = MaxIsoInstrs
    /\ overflow_checks = FALSE
    /\ HeapIdle
    /\ DescIdle
    /\ FileIdle

NextIso ==
    \/ CallRun
    \/ Iconst
    \/ PopOp
    \/ Dup
    \/ Iadd
    \/ Istore
    \/ Newarray
    \/ Iastore
    \/ Invokestatic
    \/ InvokestaticReturn
    \/ Getstatic
    \/ InitClassReturn
    \/ Ireturn
    \/ Return
    \/ FetchPastEnd
    \/ RunReturn

SpecIso == InitIso /\ [][NextIso]_vars

\* the number of parameters of the method a MethodRef of the pool names:
\* constant 10 is Main.f:(II)I, constants 14 and 18 are Main.g:()I and A.h:()I
ArityOf(index) == IF index = 10 THEN 2 ELSE 0

\* C3: an invokestatic that pushed the frame of a method of k parameters took
\* exactly the k topmost operands off the caller, and the new frame holds them
\* in locals[0..k) in the order they were pushed, holds Empty in every other
\* local, has an empty operand stack and pc 0.
C3_ArgTransfer ==
    (last.op = "invokestatic" /\ last.kind = "ok") =>
        LET k == ArityOf(last.arg)
            pre == last.pre_stack
            f == last.frame + 1
            ops == pre[f].op_stack
            new == stack[Len(stack)]
        IN  /\ Len(stack) = Len(pre) + 1
            /\ Len(ops) >= k
            /\ stack[f].op_stack = SubSeq(ops, 1, Len(ops) - k)
            /\ stack[f].variables = pre[f].variables
            /\ \A j \in 1..Len(pre) : j # f => stack[j] = pre[j]
            /\ \A j \in 1..k : new.variables[j] = ops[Len(ops) - k + j]
            /\ \A j \in (k + 1)..Len(new.variables) : new.variables[j] = DataType_Empty
            /\ new.op_stack = <<>>
            /\ new.pc = 0

\* main pushed 1, 0 and 1 and invoked Main.f:(II)I: the frame of f holds 0 in
\* locals[0], 1 in locals[1] and Empty in locals[2], and the caller keeps 1
C3_Witness ==
    /\ last.op = "invokestatic"
    /\ last.kind = "ok"
    /\ last.arg = 10
    /\ last.pre_stack[1].op_stack = <<DataType_Int(1), DataType_Int(0), DataType_Int(1)>>
    /\ Len(stack) = 2
    /\ stack[1].op_stack = <<DataType_Int(1)>>
    /\ stack[2].variables = <<DataType_Int(0), DataType_Int(1), DataType_Empty>>

\* C2: when the invokestatic of a method of k parameters whose body ended in
\* ireturn of v completes, the invoking frame is the top frame again, the call
\* stack is as deep as before the invoke, the frame's operand stack is what it
\* was without the k arguments and with v on top, and its pc is 3 further.
C2_InvokeReturns ==
    (status = "running" /\ last.op = "invokestatic_ret" /\ last.ended = "ireturn") =>
        LET k == last.arg
            pre == last.pre_stack
            f == last.frame + 1
            ops == pre[f].op_stack
        IN  /\ Len(stack) = Len(pre)
            /\ f = Len(stack)
            /\ stack[f].op_stack = Append(SubSeq(ops, 1, Len(ops) - k), last.retv)
            /\ stack[f].pc = pre[f].pc + 3

\* main invoked Main.g:()I whose body is iconst_1; ireturn: main's operand
\* stack gained Int(1)
C2_Witness ==
    /\ status = "running"
    /\ last.op = "invokestatic_ret"
    /\ last.ended = "ireturn"
    /\ code["Main.g"].bytes = <<4, Op_ireturn>>
    /\ Len(stack) = 1
    /\ stack[1].op_stack = <<DataType_Int(1)>>

\* C4: of the init_class calls that have returned (other than with the error
\* of a failed initializer body), the first for a class returned true and
\* every later one returned false, and the class's initialised flag is true
\* after each, whether or not the class declares <clinit>.
C4_InitClassResult ==
    \A i \in 1..Len(ilog) :
        ilog[i].why # "body" =>
            /\ ilog[i].ret = IF \E j \in 1..(i - 1) : ilog[j].class = ilog[i].class
                             THEN "false" ELSE "true"
            /\ classes[ilog[i].class].initialised

\* init_class of A, which declares <clinit>, returned true and A is flagged
C4_Witness ==
    /\ ilog = <<[class |-> "A", ret |-> "true", why |-> ""]>>
    /\ classes["A"].initialised

\* C5: the <clinit> of a class is started at most once in an execution.
C5_ClinitOnce == \A c \in ClassNames : clinit_runs[c] <= 1

\* the <clinit> of A ran once, to its end
C5_Witness ==
    /\ clinit_runs["A"] = 1
    /\ classes["A"].initialised

\* C6: run() on an entry method whose code is iconst_0; ireturn does not
\* crash, and when it has stopped it has returned Ok with the call stack empty.
C6_EntryIreturn ==
    code["Main.main"] = [bytes |-> <<3, Op_ireturn>>, n |-> 2, closed |-> TRUE] =>
        /\ status # "panic"
        /\ status = "returned" => (jres = "Ok" /\ stack = <<>>)

\* the entry method iconst_0; ireturn was run to the end of its ireturn
C6_Witness ==
    /\ code["Main.main"] = [bytes |-> <<3, Op_ireturn>>, n |-> 2, closed |-> TRUE]
    /\ last.op = "ireturn"
    /\ status # "running"

\* run() has returned Ok: the frames the instructions worked on are gone
RunDone == status = "returned" /\ jres = "Ok"

\* C7: an iastore of Int v at index i of an Int array leaves v in element i,
\* every other element of the array and every other heap cell as they were;
\* and an iaload at the array and index of the last store pushes Int(v).
C7_StoreLoad ==
    LET f == last.frame + 1
        ops == last.pre_stack[f].op_stack
        n == Len(ops)
    IN  /\ (~RunDone /\ last.op = "iastore" /\ last.kind = "ok") =>
               LET ref == ops[n - 2].v
                   i == ops[n - 1].v
                   v == ops[n].v
                   pre == last.pre_heap
               IN  pre[ref + 1].arr.ty = "Int" =>
                       /\ Len(heap) = Len(pre)
                       /\ heap[ref + 1].kind = "Array"
                       /\ heap[ref + 1].arr.ty = "Int"
                       /\ Len(heap[ref + 1].arr.elems) = Len(pre[ref + 1].arr.elems)
                       /\ heap[ref + 1].arr.elems[i + 1] = v
                       /\ \A j \in 0..(Len(pre[ref + 1].arr.elems) - 1) :
                              j # i => heap[ref + 1].arr.elems[j + 1]
                                         = pre[ref + 1].arr.elems[j + 1]
                       /\ \A c \in 0..(Len(pre) - 1) : c # ref => heap[c + 1] = pre[c + 1]
                       /\ stack[f].op_stack = SubSeq(ops, 1, n - 3)
        /\ (~RunDone /\ last.op = "iaload" /\ last.kind = "ok"
              /\ ops[n - 1] = DataType_ArrayReference(stored.ref)
              /\ ops[n].v = stored.index) =>
               stack[f].op_stack = Append(SubSeq(ops, 1, n - 2), DataType_Int(stored.value))

\* 2 was stored at index 1 of an Int array of length 2 and loaded from there
C7_Witness ==
    /\ ~RunDone
    /\ last.op = "iaload"
    /\ last.kind = "ok"
    /\ stored = [ref |-> 0, index |-> 1, value |-> 2]
    /\ heap = <<[kind |-> "Array", arr |-> [ty |-> "Int", elems |-> <<0, 2>>]]>>
    /\ stack[1].op_stack = <<DataType_Int(2)>>

\* C8: newarray with an Int n >= 0 on the operand stack and an atype in 4..11
\* creates an array of the element type the atype table gives, of n elements
\* that are all zero, and pushes an ArrayReference to it, leaving every other
\* heap cell as it was; with any other atype it fails and the heap is as
\* before.
C8_Newarray ==
    LET f == last.frame + 1
        ops == last.pre_stack[f].op_stack
        n == Len(ops)
        table == <<"Boolean", "Char", "Float", "Double", "Byte", "Short", "Int", "Long">>
    IN  (~RunDone /\ last.op = "newarray" /\ n >= 1 /\ ops[n].t = "Int" /\ ops[n].v >= 0) =>
            IF last.arg \in 4..11
            THEN /\ last.kind = "ok"
                 /\ LET top == stack[f].op_stack[n] IN
                    /\ Len(stack[f].op_stack) = n
                    /\ top.t = "ArrayReference"
                    /\ top.v \in 0..(Len(heap) - 1)
                    /\ heap[top.v + 1] =
                         [kind |-> "Array",
                          arr |-> [ty |-> table[last.arg - 3],
                                   elems |-> [j \in 1..ops[n].v |-> 0]]]
                    /\ \A c \in 0..(Len(last.pre_heap) - 1) :
                           c # top.v => heap[c + 1] = last.pre_heap[c + 1]
                    /\ Len(heap) = Len(last.pre_heap) + 1
            ELSE /\ last.kind = "err"
                 /\ heap = last.pre_heap

\* newarray 6 with 2 on the operand stack created a Float array of two zeros
C8_Witness ==
    /\ ~RunDone
    /\ last.op = "newarray"
    /\ last.kind = "ok"
    /\ last.arg = 6
    /\ heap = <<[kind |-> "Array", arr |-> [ty |-> "Float", elems |-> <<0, 0>>]]>>
    /\ stack[1].op_stack = <<DataType_ArrayReference(0)>>

\* the value the coercions of a store leave in an element of a Boolean or
\* Byte array for Int v: the low bit, or the low 8 bits read as a signed byte
Truncated(ty, v) ==
    IF ty = "Boolean" THEN (IF v % 2 = 1 THEN 1 ELSE 0)
    ELSE IF v % 256 >= 128 THEN (v % 256) - 256 ELSE v % 256

\* C11: a bastore of Int v into a Boolean array leaves true in the element iff
\* the low bit of v is 1, and into a Byte array leaves the low 8 bits of v as
\* a signed byte (255 gives -1, 128 gives -128); a baload at the array and
\* index of the last store pushes exactly that truncated value.
C11_ByteStore ==
    LET f == last.frame + 1
        ops == last.pre_stack[f].op_stack
        n == Len(ops)
    IN  /\ (~RunDone /\ last.op = "bastore" /\ last.kind = "ok") =>
               LET ref == ops[n - 2].v
                   i == ops[n - 1].v
                   ty == last.pre_heap[ref + 1].arr.ty
               IN  /\ ty \in {"Boolean", "Byte"}
                   /\ heap[ref + 1].arr.ty = ty
                   /\ heap[ref + 1].arr.elems[i + 1] = Truncated(ty, ops[n].v)
                   /\ ty = "Byte" => heap[ref + 1].arr.elems[i + 1] \in -128..127
        /\ (~RunDone /\ last.op = "baload" /\ last.kind = "ok"
              /\ ops[n - 1] = DataType_ArrayReference(stored.ref)
              /\ ops[n].v = stored.index) =>
               LET ty == heap[stored.ref + 1].arr.ty
               IN  stack[f].op_stack =
                       Append(SubSeq(ops, 1, n - 2), DT(ty, Truncated(ty, stored.value)))

\* 255 was stored at index 0 of a Byte array and loaded from there as -1
C11_Witness ==
    /\ ~RunDone
    /\ last.op = "baload"
    /\ last.kind = "ok"
    /\ stored = [ref |-> 0, index |-> 0, value |-> 255]
    /\ heap = <<[kind |-> "Array", arr |-> [ty |-> "Byte", elems |-> <<-1>>]]>>
    /\ stack[1].op_stack = <<DT("Byte", -1)>>

\* C12: an iastore or fastore that reaches Array::set with a value whose type
\* is not the array's element type (an Int into a Boolean or Byte array
\* aside) ends in an error and leaves every element of every array as it was.
C12_SetMismatch ==
    LET f == last.frame + 1
        ops == last.pre_stack[f].op_stack
        n == Len(ops)
        pre == last.pre_heap
    IN  (/\ ~RunDone
         /\ last.op \in {"iastore", "fastore"}
         /\ n >= 3
         /\ ops[n].t = (IF last.op = "iastore" THEN "Int" ELSE "Float")
         /\ ops[n - 1].t = "Int"
         /\ ops[n - 2].t = "ArrayReference"
         /\ ops[n - 2].v < Len(pre)
         /\ pre[ops[n - 2].v + 1].kind = "Array"
         /\ pre[ops[n - 2].v + 1].arr.ty # ops[n].t
         /\ ~(ops[n].t = "Int" /\ pre[ops[n - 2].v + 1].arr.ty \in {"Boolean", "Byte"}))
        => /\ last.kind = "err"
           /\ heap = pre

\* iastore of Int 1 at index 0 of a Float array failed and the array holds
\* its zero still
C12_Witness ==
    /\ last.op = "iastore"
    /\ last.kind = "err"
    /\ last.pre_stack[1].op_stack =
           <<DataType_ArrayReference(0), DataType_Int(0), DataType_Int(1)>>
    /\ heap = <<[kind |-> "Array", arr |-> [ty |-> "Float", elems |-> <<0>>]]>>
    /\ jres = "Err"

\* C13: isub with Ints a and b on the operand stack, b on top, pops both and
\* pushes Int(a - b): `iconst_5; iconst_3; isub` leaves Int(2), not Int(-2).
C13_IsubOrder ==
    LET f == last.frame + 1
        ops == last.pre_stack[f].op_stack
        n == Len(ops)
    IN  (~RunDone /\ last.op = "isub" /\ n >= 2 /\ ops[n].t = "Int" /\ ops[n - 1].t = "Int") =>
            /\ last.kind = "ok"
            /\ stack[f].op_stack =
                   Append(SubSeq(ops, 1, n - 2), DataType_Int(ops[n - 1].v - ops[n].v))

\* iconst_5; iconst_3; isub left Int(2)
C13_Witness ==
    /\ ~RunDone
    /\ last.op = "isub"
    /\ code["Main.main"].bytes = <<8, 6, 100>>
    /\ stack[1].op_stack = <<DataType_Int(2)>>

\* C14: idiv with Ints v1 and v2 on the operand stack, v2 on top and not
\* zero, pops both and pushes Int(v1 / v2), the deeper operand divided by the
\* top one: `bipush 6; iconst_3; idiv` leaves Int(2).
C14_IdivOrder ==
    LET f == last.frame + 1
        ops == last.pre_stack[f].op_stack
        n == Len(ops)
    IN  (/\ ~RunDone /\ last.op = "idiv" /\ n >= 2
         /\ ops[n].t = "Int" /\ ops[n - 1].t = "Int" /\ ops[n].v # 0) =>
            /\ last.kind = "ok"
            /\ stack[f].op_stack =
                   Append(SubSeq(ops, 1, n - 2),
                          DataType_Int(I32_div(ops[n - 1].v, ops[n].v)))

\* idiv ran on 6 and 3, 3 on top, and returned Ok
C14_Witness ==
    /\ ~RunDone
    /\ last.op = "idiv"
    /\ last.kind = "ok"
    /\ last.pre_stack[1].op_stack = <<DataType_Int(6), DataType_Int(3)>>

\* C15: idiv with a zero divisor (the operand on top) ends in an error that
\* the dispatch step returns, not in a crash, and pushes no result: the
\* operand stack is the one before without the two operands.
C15_IdivByZero ==
    LET f == last.frame + 1
        ops == last.pre_stack[f].op_stack
        n == Len(ops)
    IN  (/\ last.op = "idiv" /\ n >= 2
         /\ ops[n].t = "Int" /\ ops[n - 1].t = "Int" /\ ops[n].v = 0) =>
            /\ last.kind = "err"
            /\ stack[f].op_stack = SubSeq(ops, 1, n - 2)

\* idiv ran on 6 and 0, 0 on top
C15_Witness ==
    /\ last.op = "idiv"
    /\ last.pre_stack[1].op_stack = <<DataType_Int(6), DataType_Int(0)>>

\* C16: iadd, isub, imul and ineg on Int operands never end in an error or a
\* crash, and push the exact result reduced modulo 2^32 into the i32 range.
C16_Wrapping ==
    LET f == last.frame + 1
        ops == last.pre_stack[f].op_stack
        n == Len(ops)
    IN  /\ (/\ ~RunDone /\ last.op \in {"iadd", "isub", "imul"} /\ n >= 2
            /\ ops[n].t = "Int" /\ ops[n - 1].t = "Int") =>
               /\ last.kind = "ok"
               /\ stack[f].op_stack =
                      Append(SubSeq(ops, 1, n - 2),
                             DataType_Int(CASE last.op = "iadd" ->
                                                   I32_add(ops[n - 1].v, ops[n].v).v
                                            [] last.op = "isub" ->
                                                   I32_sub(ops[n - 1].v, ops[n].v).v
                                            [] last.op = "imul" ->
                                                   I32_mul(ops[n - 1].v, ops[n].v).v))
        /\ (~RunDone /\ last.op = "ineg" /\ n >= 1 /\ ops[n].t = "Int") =>
               /\ last.kind = "ok"
               /\ stack[f].op_stack =
                      Append(SubSeq(ops, 1, n - 1), DataType_Int(I32_neg(ops[n].v).v))

\* built without overflow checks, imul of 65025 and 65025 pushed the product
\* 4228250625 reduced modulo 2^32, -66716671
C16_Witness ==
    /\ ~RunDone
    /\ ~overflow_checks
    /\ last.op = "imul"
    /\ last.kind = "ok"
    /\ last.pre_stack[1].op_stack = <<DataType_Int(65025), DataType_Int(65025)>>
    /\ stack[1].op_stack = <<DataType_Int(-66716671)>>

\* the max_stack of the Code attribute of the method of an id
MaxStackOf(id) ==
    LET at == CHOOSE p \in ClassNames \X (1..3) :
                  p[2] <= Len(Methods(p[1])) /\ Methods(p[1])[p[2]].id = id
    IN  Methods(at[1])[at[2]].max_stack

\* C19: the operand stack of the frame of every running activation holds at
\* most the max_stack of the method's Code attribute.
C19_MaxStack ==
    \A k \in 1..Len(calls) :
        calls[k].stack_frame < Len(stack) =>
            Len(stack[calls[k].stack_frame + 1].op_stack) <= MaxStackOf(calls[k].method)

\* the operand stack of main, whose max_stack is 3, holds three values
C19_Witness ==
    /\ status = "running"
    /\ Top.method = "Main.main"
    /\ Len(stack[1].op_stack) = 3

\* C17: bipush of the byte b pushes Int(b) if b < 128 and Int(b - 256)
\* otherwise, the byte read as a signed 8-bit value, and moves pc on by 2.
C17_Bipush ==
    LET f == last.frame + 1
        ops == last.pre_stack[f].op_stack
        b == last.arg
    IN  (~RunDone /\ last.op = "bipush") =>
            /\ last.kind = "ok"
            /\ stack[f].op_stack = Append(ops, DataType_Int(IF b < 128 THEN b ELSE b - 256))
            /\ stack[f].pc = last.pre_stack[f].pc + 2

\* bipush 127 pushed Int(127) and pc is 2
C17_Witness ==
    /\ ~RunDone
    /\ last.op = "bipush"
    /\ last.arg = 127
    /\ stack[1].op_stack = <<DataType_Int(127)>>
    /\ stack[1].pc = 2

\* the array loads and the array stores of handle_op_code
ArrayLoads == {"aaload", "baload", "faload", "iaload"}

ArrayStores == {"aastore", "bastore", "fastore", "iastore"}

C20_EmptyArm ==
    (last.op = "todo" /\ last.arg \notin {168, 169, 201}) =>
        /\ last.kind = "err"
        /\ status # "panic"
        /\ stack = last.pre_stack
        /\ heap = last.pre_heap

\* goto was dispatched after an iconst_0 and the frame is as before it
C20_Witness ==
    /\ last.op = "todo"
    /\ last.arg = 167
    /\ stack = last.pre_stack
    /\ stack[1].op_stack = <<DataType_Int(0)>>

---------------------------------------------------------------------------
(* Claims about the class files                                            *)

\* the constant the producer put at wire index n of the pool, if any
MadeAt(n) ==
    LET js == { j \in 1..Len(made.entries) : WireIndex(made.entries, j) = n }
    IN  IF js = {} THEN [some |-> FALSE, c |-> RawConstant_Unused]
        ELSE [some |-> TRUE, c |-> made.entries[CHOOSE j \in js : TRUE].c]

\* the methods the producer put into the file under a name and a
\* descriptor, by their places, and whether a method has all of some bits
MadeMethods(name, descriptor) ==
    { j \in 1..Len(made.methods) :
        /\ MadeAt(made.methods[j].name).c = Utf8(name)
        /\ MadeAt(made.methods[j].descriptor).c = Utf8(descriptor) }

MadeFlagged(j, weights) ==
    \A w \in weights : (made.methods[j].flags \div w) % 2 = 1

\* what C21 asks of a lookup: it returns a method or None; it returns a
\* method exactly when the method of the name and descriptor (the first,
\* should the file hold several) has all the flags; and the method
\* returned is that method
LookupRight(ret, name, descriptor, weights, flags) ==
    LET cand == MadeMethods(name, descriptor)
    IN  /\ ret.kind \in {"Some", "None"}
        /\ ret.kind = "Some" <=> (cand # {} /\ MadeFlagged(MinOf(cand), weights))
        /\ Cardinality(cand) = 1 =>
              (ret.kind = "Some" <=> \E j \in cand : MadeFlagged(j, weights))
        /\ ret.kind = "Some" =>
              /\ ret.v.name = name
              /\ ret.v.descriptor = descriptor
              /\ flags \subseteq ret.v.access_flags

\* C21: find_entry_point returns a method exactly when the class has a
\* method "main" of descriptor "([Ljava/lang/String;)V" whose flags hold
\* both PUBLIC and STATIC, and None if that method lacks either flag or
\* there is none; find_init_method likewise returns "<clinit>" of "()V"
\* only when STATIC is set.
C21_FindEntryPoint ==
    /\ fres.op = "find_entry_point" =>
          LookupRight(fres.ret, "main", "([Ljava/lang/String;)V", {1, 8}, {"PUBLIC", "STATIC"})
    /\ fres.op = "find_init_method" =>
          LookupRight(fres.ret, "<clinit>", "()V", {8}, {"STATIC"})

\* main is found behind another method, in a class whose <clinit> is there
C21_Witness ==
    /\ fres.op = "find_entry_point"
    /\ fres.ret.kind = "Some"
    /\ Len(made.methods) = 2
    /\ MadeMethods("main", "([Ljava/lang/String;)V") = {2}
    /\ MadeMethods("<clinit>", "()V") = {1}

\* C22: read_from rejects every input whose first four bytes are not
\* CA FE BA BE, with an error that names the magic read and with nothing
\* read after these bytes; no ClassFile is made of the input and
\* load_class_from_file adds no class to Jvm.classes.
C22_BadMagic ==
    (Len(wire) >= 4 /\ SubSeq(wire, 1, 4) # <<202, 254, 186, 190>>) =>
        /\ class_file.kind # "Ok"
        /\ classes = << >>
        /\ fres.op = "read_from" =>
              /\ class_file.kind = "Err"
              /\ class_file.err = "Invalid magic value"
              /\ class_file.v = SubSeq(wire, 1, 4)
              /\ class_file.pos = 4
        /\ fres.op = "load_class_from_file" =>
              /\ fres.ret = [kind |-> "Err", v |-> "Invalid magic value"]
              /\ status = "idle"
        /\ fres.op \in {"none", "read_from", "load_class_from_file"}

\* a whole class file under the magic DE AD BE EF has been read
C22_Witness ==
    /\ fres.op = "read_from"
    /\ made.magic = <<222, 173, 190, 239>>
    /\ made.keep < 0
    /\ Len(wire) > 100
    /\ class_file.err = "Invalid magic value"
    /\ class_file.v = <<222, 173, 190, 239>>

\* C23: in the pool read, a Long or Double of wire index k takes the slots
\* k and k + 1: a lookup of k yields the Long or Double, slot k + 1 holds
\* Unused and the next entry is at k + 2; every other entry takes one
\* slot; so every entry of the file is found at its wire index.
C23_PoolSlots ==
    class_file.kind = "Ok" =>
        LET pool == class_file.v.constant_pool
            wide(j) == made.entries[j].c.tag \in {"Long", "Double"}
        IN  /\ Len(pool) = SlotsOf(made.entries)
            /\ \A j \in 1..Len(made.entries) :
                LET k == WireIndex(made.entries, j)
                IN  /\ IndexBefore(pool, k) = AOk(made.entries[j].c)
                    /\ wide(j) => IndexBefore(pool, k + 1) = AOk(RawConstant_Unused)
                    /\ j < Len(made.entries) =>
                          IndexBefore(pool, IF wide(j) THEN k + 2 ELSE k + 1)
                              = AOk(made.entries[j + 1].c)
            /\ \A k \in 1..Len(pool) :
                (pool[k].tag = "Unused") <=>
                    (k > 1 /\ pool[k - 1].tag \in {"Long", "Double"})

\* a pool of a Utf8 at 1, a Long at 2 and a Class at 4 has been read
C23_Witness ==
    /\ class_file.kind = "Ok"
    /\ made.entries = << E_Utf8("A"), E_Long, E_Class(1) >>
    /\ class_file.v.constant_pool[2].tag = "Long"
    /\ class_file.v.constant_pool[3].tag = "Unused"
    /\ class_file.v.constant_pool[4] = ClassConst(1)

\* a wire index that names no entry: 0, or the slot after a Long or Double
NoEntry(n) == n = 0 \/ (n <= SlotsOf(made.entries) /\ ~MadeAt(n).some)

\* the wire indices in the body of an attribute the producer made
MadeRefs(a) ==
    IF MadeAt(a.name).c = Utf8("EnclosingMethod")
    THEN << a.info[1] * 256 + a.info[2], a.info[3] * 256 + a.info[4] >>
    ELSE << a.info[1] * 256 + a.info[2] >>

\* C24: no accessor returns a value read from index 0 of the pool or from
\* an Unused slot: this_class(), super_class() and the EnclosingMethod,
\* Signature and SourceFile attributes of a class whose index is 0 or the
\* slot after a Long or Double return an error, not an entry and not a
\* panic.
C24_NoSentinel ==
    /\ (fres.op = "this_class" /\ NoEntry(made.this_class)) => fres.ret.kind = "Err"
    /\ (fres.op = "super_class" /\ NoEntry(made.super_class)) => fres.ret.kind = "Err"
    /\ fres.op = "attributes" =>
          \A i \in 1..Len(made.attributes) :
              /\ (\E k \in 1..Len(MadeRefs(made.attributes[i])) :
                      NoEntry(MadeRefs(made.attributes[i])[k]))
                    => fres.ret.v[i].kind = "Err"
              /\ fres.ret.v[i].kind = "Ok" =>
                    \A k \in 1..Len(fres.ret.v[i].v.refs) :
                        fres.ret.v[i].v.refs[k] # RawConstant_Unused

\* this_class() of a class whose this_class is the slot after the Long
\* returned an error
C24_Witness ==
    /\ fres.op = "this_class"
    /\ made.this_class = 16
    /\ MadeAt(15).c.tag = "Long"
    /\ fres.ret = AErr("Expected Class Constant")

\* what an attribute of the producer refers to, should each of its indices
\* name an entry: the entries, and for SourceFile the string of the entry
MadeTargets(a) ==
    [k \in 1..Len(MadeRefs(a)) |->
        IF MadeAt(a.name).c = Utf8("SourceFile") THEN MadeAt(MadeRefs(a)[k]).c.string
        ELSE MadeAt(MadeRefs(a)[k]).c]

\* whether all of these indices name entries, of Utf8 where a string is read
MadeResolves(a) ==
    \A k \in 1..Len(MadeRefs(a)) :
        /\ MadeAt(MadeRefs(a)[k]).some
        /\ MadeAt(a.name).c = Utf8("SourceFile") => MadeAt(MadeRefs(a)[k]).c.tag = "Utf8"

AttributesRight(attributes, items) ==
    \A i \in 1..Len(attributes) :
        MadeResolves(attributes[i]) =>
            items[i] = AOk([attr |-> MadeAt(attributes[i].name).c.string,
                            refs |-> MadeTargets(attributes[i])])

MembersRight(members, items) ==
    \A j \in 1..Len(members) :
        /\ items[j].kind = "Ok"
        /\ Utf8(items[j].v.name) = MadeAt(members[j].name).c
        /\ Utf8(items[j].v.descriptor) = MadeAt(members[j].descriptor).c

\* C25: every accessor resolves a wire index n to the entry read as the
\* n-th slot of the pool: this_class(), interfaces(), the names and
\* descriptors of methods and fields, the names of attributes, and the
\* bodies of ConstantValue, Signature, SourceFile and EnclosingMethod.
C25_OneOrigin ==
    /\ (/\ fres.op = "this_class"
        /\ MadeAt(made.this_class).c.tag = "Class"
        /\ MadeAt(MadeAt(made.this_class).c.a).c.tag = "Utf8") =>
          fres.ret = AOk(MadeAt(MadeAt(made.this_class).c.a).c.string)
    /\ fres.op = "interfaces" =>
          \A i \in 1..Len(made.interfaces) :
              MadeAt(made.interfaces[i]).some =>
                  fres.ret.v[i] = AOk(MadeAt(made.interfaces[i]).c)
    /\ fres.op = "methods" => MembersRight(made.methods, fres.ret.v)
    /\ fres.op = "fields" => MembersRight(made.fields, fres.ret.v)
    /\ fres.op = "attributes" => AttributesRight(made.attributes, fres.ret.v)
    /\ fres.op = "field_attributes" => AttributesRight(made.fields[1].attributes, fres.ret.v)

\* the EnclosingMethod attribute of the indices 2 and 18 refers to the
\* Class at 2 and the NameAndType at 18
C25_Witness ==
    /\ fres.op = "attributes"
    /\ made.attributes = << Attr(13, be16(2) \o be16(18)) >>
    /\ fres.ret.v[1] = AOk([attr |-> "EnclosingMethod",
                            refs |-> << ClassConst(1), NameAndType(9, 10) >>])

---------------------------------------------------------------------------
(* Claims about the dispatch loop                                          *)

\* the instructions that neither pop a frame nor invoke, and the bytes
\* C28 gives each: the opcode and its immediate operand bytes
PlainOps ==
    {"nop", "iconst", "dup", "iadd", "iastore", "iaload",
     "bipush", "newarray", "aload", "astore", "istore", "fstore"}

PcWidth(op) ==
    IF op \in {"bipush", "newarray", "aload", "astore", "istore", "fstore"} THEN 2 ELSE 1

\* C28: after an instruction that neither pops the executing frame nor
\* invokes a method, the pc of the executing frame is greater by 1 plus
\* the number of immediate bytes of the opcode (none for nop, iconst, dup,
\* arithmetic and array access; one for bipush, newarray, aload, astore,
\* istore, fstore), and the pc of every other frame is as it was.
C28_PcRule ==
    (~RunDone /\ last.op \in PlainOps /\ last.kind = "ok") =>
        /\ Len(stack) = Len(last.pre_stack)
        /\ \A g \in 1..Len(stack) :
              stack[g].pc = IF g = last.frame + 1
                            THEN last.pre_stack[g].pc + PcWidth(last.op)
                            ELSE last.pre_stack[g].pc

\* astore 0 has run in g, called by main at pc 4: g's pc is 6, main's is 4
C28_Witness ==
    /\ ~RunDone
    /\ last.op = "astore"
    /\ last.kind = "ok"
    /\ Len(stack) = 2
    /\ last.frame = 1
    /\ stack[1].pc = 4
    /\ stack[2].pc = 6

\* the class of the method the invokestatic that has just returned named:
\* the MethodRef at the index after the opcode in the caller's code
InvokedClass ==
    LET pc == last.pre_stack[last.frame + 1].pc
        bytes == code[Top.method].bytes
    IN  Resolve(bytes[pc + 2] * 256 + bytes[pc + 3], "MethodRef").class

\* C26: a method entered through invokestatic runs in a class whose
\* initialization has begun (its <clinit> was started or its flag is set),
\* and when an invokestatic has completed the class of the invoked method is
\* flagged initialised.
C26_InvokeInit ==
    /\ status = "running" =>
        \A k \in 1..Len(calls) :
            calls[k].via = "invokestatic" =>
                \/ classes[calls[k].class].initialised
                \/ clinit_runs[calls[k].class] > 0
    /\ (status = "running" /\ last.op = "invokestatic_ret") =>
        classes[InvokedClass].initialised

\* main invoked A.h, whose first instruction has executed, and A is neither
\* flagged nor has its <clinit> been started
C26_Witness ==
    /\ status = "running"
    /\ Len(calls) = 2
    /\ Top.via = "invokestatic"
    /\ Top.method = "A.h"
    /\ Frame.pc > 0
    /\ ~classes["A"].initialised
    /\ clinit_runs["A"] = 0

\* C27: getstatic neither fails nor crashes, the <clinit> of a class is
\* started at most once, and when a getstatic that ran the initializer has
\* completed the pc of its frame is 3 past the opcode.
C27_Getstatic ==
    /\ last.op \in {"getstatic", "getstatic_ret"} => last.kind = "ok"
    /\ \A c \in ClassNames : clinit_runs[c] < 2
    /\ (last.op = "getstatic_ret" /\ last.kind = "ok") =>
        stack[last.frame + 1].pc = last.pre_stack[last.frame + 1].pc + 3

\* getstatic of A.x started the <clinit> of A, which ran to its end; the
\* getstatic arm then has the flag of A set
C27_Witness ==
    /\ last.op = "getstatic_ret"
    /\ last.arg = 0
    /\ ilog = <<[class |-> "A", ret |-> "true", why |-> ""]>>
    /\ clinit_runs["A"] = 1
    /\ classes["A"].initialised
    /\ status = "panic"

\* C29: whenever an instruction is about to be fetched the call stack has
\* one frame for each activation, and when an invokestatic has completed,
\* however the callee's code ended, the caller's frame is the top of a call
\* stack as deep as before the invoke.
C29_OneFramePerCall ==
    /\ Fetching => Len(stack) = Len(calls)
    /\ (status = "running" /\ last.op = "invokestatic_ret") =>
        /\ Len(stack) = Len(last.pre_stack)
        /\ last.frame + 1 = Len(stack)

\* main invoked A.h, whose code iconst_0 ends with no return instruction,
\* and the invoke has completed
C29_Witness ==
    /\ status = "running"
    /\ last.op = "invokestatic_ret"
    /\ last.ended = "iconst"
    /\ code["A.h"].bytes = <<3>>
    /\ Len(calls) = 1

---------------------------------------------------------------------------
(***************************************************************************)
(* Claims about the loads of array elements                                *)
(***************************************************************************)

\* the element types a load widens to Int
FoldedTypes == {"Boolean", "Byte", "Char", "Short"}

\* C30: a baload that succeeds on a Boolean, Byte, Char or Short array
\* pushes the element as an Int of the same value, and an iadd whose
\* operands are Ints or loaded elements succeeds.
C30_LoadFolds ==
    LET f == last.frame + 1
        ops == last.pre_stack[f].op_stack
        n == Len(ops)
    IN  /\ (~RunDone /\ last.op = "baload" /\ last.kind = "ok") =>
               LET arr == last.pre_heap[ops[n - 1].v + 1].arr
               IN  arr.ty \in FoldedTypes =>
                       stack[f].op_stack =
                           Append(SubSeq(ops, 1, n - 2),
                                  DataType_Int(arr.elems[ops[n].v + 1]))
        /\ (last.op = "iadd" /\ n >= 2) =>
               (({ops[n].t, ops[n - 1].t} \subseteq FoldedTypes \cup {"Int"}) =>
                    last.kind = "ok")

\* 255 was stored in a Byte array, loaded from it as Byte(-1), and the iadd
\* of that and Int(1) failed
C30_Witness ==
    /\ last.op = "iadd"
    /\ last.kind = "err"
    /\ last.pre_stack[1].op_stack = <<DT("Byte", -1), DataType_Int(1)>>
    /\ heap = <<[kind |-> "Array", arr |-> [ty |-> "Byte", elems |-> <<-1>>]]>>
    /\ code["Main.main"].bytes = <<4, 188, 8, 89, 3, 16, 255, 84, 3, 51, 4, 96>>

---------------------------------------------------------------------------
(***************************************************************************)
(* Claims about failures of the dispatch step                              *)
(***************************************************************************)

\* the operands an opcode takes off the operand stack
Consumes(op) == IF op = "iadd" THEN 2 ELSE 1

PoppingOps == {"pop", "dup", "istore", "astore", "iadd", "ineg", "ireturn"}

\* C31: pop, dup, a store, an arithmetic opcode or ireturn executed on an
\* operand stack of fewer values than it takes returns an error: it neither
\* succeeds nor crashes.
C31_StackExhausted ==
    (/\ last.op \in PoppingOps
     /\ Len(last.pre_stack[last.frame + 1].op_stack) < Consumes(last.op)) =>
        last.kind = "err"

\* pop has returned Ok on the empty operand stack of main
C31_Witness ==
    /\ last.op = "pop"
    /\ last.kind = "ok"
    /\ last.pre_stack[1].op_stack = << >>
    /\ stack[1].op_stack = << >>
    /\ stack[1].pc = 1

\* the index an array load or store is about to use that is not an index
\* of the array: the operands are an array reference to an array and Ints
ArrayIndexOut ==
    LET ops == last.pre_stack[last.frame + 1].op_stack
        n == Len(ops)
        k == IF last.op = "iastore" THEN 1 ELSE 0
    IN  /\ last.op \in {"iaload", "iastore"}
        /\ n >= 2 + k
        /\ \A j \in (n - k)..n : ops[j].t = "Int"
        /\ ops[n - k - 1].t = "ArrayReference"
        /\ Heap_get_array(last.pre_heap, ops[n - k - 1].v).ok
        /\ LET arr == Heap_get_array(last.pre_heap, ops[n - k - 1].v).arr
           IN  ops[n - k].v < 0 \/ ops[n - k].v >= Len(arr.elems)

\* the slot a load or store of a local is about to use that the frame does
\* not have; a store has a value to store
LocalIndexOut ==
    LET fr == last.pre_stack[last.frame + 1]
    IN  /\ last.op \in {"iload_n", "aload", "astore", "istore"}
        /\ last.op \in {"astore", "istore"} => fr.op_stack # << >>
        /\ last.arg >= Len(fr.variables)

\* C32: an array load or store whose index is negative or not below the
\* length of the array, and a load or store of a local whose slot is not
\* below max_locals, return an error and leave the heap and the locals and
\* operand stacks of the other frames as they were.
C32_IndexRange ==
    (ArrayIndexOut \/ LocalIndexOut) =>
        /\ last.kind = "err"
        /\ heap = last.pre_heap
        /\ \A g \in 1..Len(last.pre_stack) :
              g # last.frame + 1 => (g <= Len(stack) /\ stack[g] = last.pre_stack[g])

\* iaload at index -1 of an array of one element ended in a panic
C32_Witness ==
    /\ last.op = "iaload"
    /\ last.kind = "panic"
    /\ status = "panic"
    /\ last.pre_stack[1].op_stack = <<DataType_ArrayReference(0), DataType_Int(-1)>>
    /\ heap = <<[kind |-> "Array", arr |-> [ty |-> "Int", elems |-> <<0>>]]>>

---------------------------------------------------------------------------
(***************************************************************************)
(* Claims about the references of the frames                               *)
(***************************************************************************)

\* the array references in the operand stacks and the locals of the frames
LiveRefs ==
    UNION { { fr.op_stack[j].v : j \in { j \in 1..Len(fr.op_stack) :
                                           fr.op_stack[j].t = "ArrayReference" } }
            \cup { fr.variables[j].v : j \in { j \in 1..Len(fr.variables) :
                                                fr.variables[j].t = "ArrayReference" } } :
            fr \in { stack[g] : g \in 1..Len(stack) } }

RefsValid ==
    \A i \in LiveRefs : Heap_is_valid_reference(heap, i) /\ heap[i + 1].kind = "Array"

\* a step neither frees nor replaces a cell: each array stays in its cell,
\* of its element type and length
CellsKept ==
    \A i \in 1..Len(heap) :
        heap[i].kind = "Array" =>
            /\ i <= Len(heap')
            /\ heap'[i].kind = "Array"
            /\ heap'[i].arr.ty = heap[i].arr.ty
            /\ Len(heap'[i].arr.elems) = Len(heap[i].arr.elems)

\* C33: every ArrayReference(i) in the operand stack or the locals of a
\* frame on the call stack is a valid reference whose cell is an Array, and
\* no step of the interpreter frees or replaces the cell of an array.
C33_LiveRefs == []RefsValid /\ [][CellsKept]_vars

\* g, invoked by main, holds a reference to a second array on its operand
\* stack while main holds one to the first
C33_Witness ==
    /\ status = "running"
    /\ Len(stack) = 2
    /\ Len(heap) = 2
    /\ stack[1].op_stack = <<DataType_ArrayReference(0), DataType_Int(0)>>
    /\ stack[2].op_stack = <<DataType_ArrayReference(1), DataType_Int(0)>>

---------------------------------------------------------------------------
(***************************************************************************)
(* Claims about the cells of the heap                                      *)
(***************************************************************************)

\* C34: after any sequence of create_array and remove calls the heap is
\* empty or its last cell is not Empty.
C34_NoTrailingEmpty == heap = << >> \/ heap[Len(heap)].kind # "Empty"

\* of two arrays the first was removed, then the second: the heap is one
\* Empty cell
C34_Witness ==
    /\ hlast.op = "remove"
    /\ hlast.ok
    /\ hlast.index = 1
    /\ Len(hlast.pre) = 2
    /\ hlast.pre[1].kind = "Empty"
    /\ heap = <<HeapItem_Empty>>

\* C35: create_array never returns an index that was a valid reference
\* before the call, a successful call leaves every cell that was valid
\* before it as it was, and the heap is never longer than max_size.
C35_FreshIndex ==
    /\ Len(heap) <= max_size
    /\ (hlast.op = "create_array" /\ hlast.ok) =>
          /\ ~Heap_is_valid_reference(hlast.pre, hlast.ret)
          /\ Heap_is_valid_reference(heap, hlast.ret)
          /\ \A i \in 0..(Len(hlast.pre) - 1) :
                Heap_is_valid_reference(hlast.pre, i) =>
                    (i < Len(heap) /\ heap[i + 1] = hlast.pre[i + 1])

\* a heap of max_size cells, the middle one Empty, took an array into that
\* cell
C35_Witness ==
    /\ hlast.op = "create_array"
    /\ hlast.ok
    /\ Len(hlast.pre) = max_size
    /\ max_size = 3
    /\ hlast.pre[1].kind = "Array"
    /\ hlast.pre[2].kind = "Empty"
    /\ hlast.pre[3].kind = "Array"
    /\ hlast.ret = 1
    /\ Len(heap) = 3

---------------------------------------------------------------------------
(***************************************************************************)
(* Claims about the strings from_str accepts                               *)
(***************************************************************************)

\* the strings C36 names: no '(' at the head, no ')', V as the first
\* parameter or as the element type of an array that is the first
\* parameter, an L with no ';' after it, or characters after a whole
\* method descriptor
Malformed(s) ==
    \/ s = << >>
    \/ s[1] # "("
    \/ \A i \in 1..Len(s) : s[i] # ")"
    \/ Len(s) >= 2 /\ s[2] = "V"
    \/ Len(s) >= 3 /\ s[2] = "[" /\ s[3] = "V"
    \/ \E i \in 1..Len(s) : s[i] = "L" /\ \A j \in (i + 1)..Len(s) : s[j] # ";"
    \/ \E k \in 1..(Len(s) - 1) : SubSeq(s, 1, k) \in { d.str : d \in WellFormedDerivs }

\* C36: to_string() of the result of every string from_str accepts is the
\* string, and from_str rejects the strings with characters after the
\* return descriptor, with V as a parameter or an element type, or without
\* '(' or ')' or the ';' of an L type.
C36_AcceptsOnly ==
    /\ dphase = "printed" => dout = dstr
    /\ (dphase \in {"parsed", "printed"} /\ Malformed(dstr)) => ~dres.ok

\* the string ()VI was accepted as the descriptor ()V
C36_Witness ==
    /\ dphase = "printed"
    /\ dstr = <<"(", ")", "V", "I">>
    /\ ~dexp.wf
    /\ dres.ok
    /\ dres.params = << >>
    /\ dres.return_value = <<"Void">>
    /\ dout = <<"(", ")", "V">>

---------------------------------------------------------------------------
(***************************************************************************)
(* Claims about the steps of a run                                         *)
(***************************************************************************)

\* a step of a run moves the pc of a frame forward, pushes or pops a frame,
\* or ends the run
StepProgress ==
    status = "running" =>
        \/ status' # "running"
        \/ Len(stack') # Len(stack)
        \/ \E g \in 1..Len(stack) : stack'[g].pc > stack[g].pc

\* a method is active twice only through a chain of calls that holds an
\* invokestatic
RepeatsInvoke ==
    \A k \in 1..Len(calls) : \A l \in (k + 1)..Len(calls) :
        calls[k].method = calls[l].method =>
            \E j \in (k + 1)..l : calls[j].via = "invokestatic"

\* C37: every step of a run increases the pc of the executing frame, pushes
\* a frame, pops one or ends the run, and a method is entered while it is
\* active only by a cyclic chain of invokestatic calls, so that without
\* such a chain the depth of the calls is bounded and run() stops after
\* finitely many steps.
C37_Progress == [][StepProgress]_vars /\ []RepeatsInvoke

\* the <clinit> of A, started by a getstatic of main, is started again by
\* its own getstatic, with no invokestatic in the program
C37_Witness ==
    /\ status = "running"
    /\ Len(calls) = 3
    /\ calls[2].method = "A.<clinit>"
    /\ calls[3].method = "A.<clinit>"
    /\ calls[3].via = "init_class"
    /\ code["Main.main"].bytes = <<178, 0, 22>>
    /\ code["A.<clinit>"].bytes = <<178, 0, 22>>

---------------------------------------------------------------------------
(***************************************************************************)
(* Claims about the frames an instruction touches                          *)
(***************************************************************************)

\* the frames other than the executing one, the depth of Jvm.stack and
\* the flags of the classes are after the step what they were before it
OthersKept ==
    /\ Len(stack') = Len(stack)
    /\ \A g \in 1..Len(stack) : g # SF + 1 => stack'[g] = stack[g]
    /\ classes' = classes

\* the step that dispatches an instruction whose opcode is not among ops
\* keeps the other frames
Isolated(ops) == (Fetching /\ last'.op \notin ops) => OthersKept

\* the step in which the init_class that a getstatic called returns
InitReturns == status = "running" /\ pcn = "ret" /\ Top.via = "init_class"

\* C38 as stated: an instruction other than invokestatic, ireturn and return
\* leaves the operand stacks, locals and pcs of the other frames, the depth
\* of the call stack and the initialised flag of every class unchanged,
\* through the whole of its handler.
C38_AsStated ==
    [][Isolated({"invokestatic", "ireturn", "return"}) /\ (InitReturns => OthersKept)]_vars

\* C38: an instruction other than invokestatic, getstatic, ireturn and
\* return leaves the operand stacks, locals and pcs of the other frames, the
\* depth of the call stack and the initialised flag of every class unchanged.
C38_FrameIsolation ==
    [][Isolated({"invokestatic", "getstatic", "ireturn", "return"})]_vars

\* newarray ran in the frame of Main.g while main's frame held an operand:
\* the heap grew and main's frame is as it was
C38_Witness ==
    /\ last.op = "newarray"
    /\ last.kind = "ok"
    /\ last.frame = 1
    /\ Len(stack) = 2
    /\ stack[1].op_stack = <<DataType_Int(1)>>
    /\ stack[1] = last.pre_stack[1]
    /\ Len(heap) = Len(last.pre_heap) + 1

---------------------------------------------------------------------------
(***************************************************************************)
(* Claims about the size of a new array                                    *)
(***************************************************************************)

\* the operands of the executing frame before the last instruction
PreOps == last.pre_stack[last.frame + 1].op_stack

\* whether the last instruction was a newarray whose count was a negative Int
NegativeCount ==
    /\ last.op = "newarray"
    /\ PreOps # <<>>
    /\ PreOps[Len(PreOps)].t = "Int"
    /\ PreOps[Len(PreOps)].v < 0

\* C39: a newarray whose count is a negative Int returns an error, allocates
\* no cell and leaves the length of the heap unchanged.
C39_NegativeSize ==
    NegativeCount =>
        /\ last.kind = "err"
        /\ status = "returned" /\ jres = "Err"
        /\ heap = last.pre_heap

\* newarray int with the count -1: the handler panicked, and the heap is as
\* it was
C39_Witness ==
    /\ NegativeCount
    /\ last.arg = 10
    /\ PreOps = <<DataType_Int(-1)>>
    /\ last.kind = "panic"
    /\ status = "panic"
    /\ heap = last.pre_heap

---------------------------------------------------------------------------
(* The heap specification: a driver calling create_array and remove on a   *)
(* Heap of a small max_size.                                               *)

\* the atypes the driver passes: Boolean, Int and one that is no atype
DriverATypes == {3, 4, 10}

InitHeap ==
    /\ heap = <<>>
    /\ max_size \in 0..MaxHeapSize
    /\ hlast = NoCall
    /\ DescIdle
    /\ JvmIdle
    /\ FileIdle

HeapCreateArray ==
    \E atype \in DriverATypes, size \in 0..MaxArrLen :
        LET r == Heap_create_array(heap, max_size, atype, size) IN
        /\ heap' = r.inner
        /\ hlast' = [op |-> "create_array", atype |-> atype, size |-> size,
                     index |-> 0, pre |-> heap, ok |-> r.ok, ret |-> r.ret]
        /\ UNCHANGED <<max_size, dvars, jvars, cvars>>

HeapRemove ==
    \E index \in 0..Len(heap) :
        LET r == Heap_remove(heap, index) IN
        /\ heap' = r.inner
        /\ hlast' = [op |-> "remove", atype |-> 0, size |-> 0,
                     index |-> index, pre |-> heap, ok |-> r.ok, ret |-> 0]
        /\ UNCHANGED <<max_size, dvars, jvars, cvars>>

NextHeap == HeapCreateArray \/ HeapRemove

SpecHeap == InitHeap /\ [][NextHeap]_vars

\* C9: create_array of a valid atype puts the new array in the lowest-indexed
\* Empty cell, returning that index and leaving the length as it was; with no
\* Empty cell it appends and returns the old length; with no Empty cell and
\* the length equal to max_size it fails and the heap is as before.
C9_Allocation ==
    (hlast.op = "create_array" /\ hlast.atype \in ATypes) =>
        LET pre == hlast.pre
            item == [kind |-> "Array",
                     arr |-> [ty |-> IF hlast.atype = 4 THEN "Boolean" ELSE "Int",
                              elems |-> [i \in 1..hlast.size |-> 0]]]
            empties == { i \in 0..(Len(pre) - 1) : pre[i + 1].kind = "Empty" }
        IN  IF empties # {}
            THEN /\ hlast.ok
                 /\ hlast.ret \in empties
                 /\ \A j \in empties : hlast.ret <= j
                 /\ Len(heap) = Len(pre)
                 /\ heap[hlast.ret + 1] = item
                 /\ \A j \in 0..(Len(pre) - 1) : j # hlast.ret => heap[j + 1] = pre[j + 1]
            ELSE IF Len(pre) # max_size
                 THEN /\ hlast.ok
                      /\ hlast.ret = Len(pre)
                      /\ heap = Append(pre, item)
                 ELSE /\ ~hlast.ok
                      /\ heap = pre

\* an allocation reused the Empty cell 0 of a heap of three cells, the second
\* cell of which was Empty as well
C9_Witness ==
    /\ hlast.op = "create_array"
    /\ hlast.ok
    /\ Len(hlast.pre) = 3
    /\ hlast.pre[1].kind = "Empty"
    /\ hlast.pre[2].kind = "Empty"
    /\ hlast.ret = 0
    /\ heap[1].kind = "Array"

\* C10: remove(i) of an index that is no valid reference fails and leaves the
\* heap as it was; remove(i) of a valid reference succeeds, shortens the heap
\* by one if i is the last index and otherwise makes cell i Empty with the
\* length as it was; every other cell keeps its index and content, and i is
\* no valid reference afterwards.
C10_Remove ==
    hlast.op = "remove" =>
        LET pre == hlast.pre
            i == hlast.index
            valid == i < Len(pre) /\ pre[i + 1].kind # "Empty"
        IN  IF ~valid
            THEN ~hlast.ok /\ heap = pre
            ELSE /\ hlast.ok
                 /\ IF i = Len(pre) - 1
                    THEN Len(heap) = Len(pre) - 1
                    ELSE Len(heap) = Len(pre) /\ heap[i + 1].kind = "Empty"
                 /\ \A j \in 0..(Len(heap) - 1) : j # i => heap[j + 1] = pre[j + 1]
                 /\ ~Heap_is_valid_reference(heap, i)

\* the last cell of a heap of three arrays was removed
C10_Witness ==
    /\ hlast.op = "remove"
    /\ hlast.ok
    /\ Len(hlast.pre) = 3
    /\ \A j \in 1..3 : hlast.pre[j].kind = "Array"
    /\ hlast.index = 2
    /\ Len(heap) = 2

---------------------------------------------------------------------------
(* The descriptor specification: from_str on an input, then to_string. *)

InitDesc ==
    /\ \E i \in DescInputs : dstr = i[1] /\ dexp = i[2]
    /\ dres = MdErr
    /\ dout = <<>>
    /\ dphase = "input"
    /\ HeapIdle
    /\ JvmIdle
    /\ FileIdle

ParseDescriptor ==
    /\ dphase = "input"
    /\ dres' = MethodDescriptor_from_str(dstr)
    /\ dphase' = "parsed"
    /\ UNCHANGED <<dstr, dout, dexp, hvars, jvars, cvars>>

PrintDescriptor ==
    /\ dphase = "parsed"
    /\ dres.ok
    /\ dout' = MethodDescriptor_to_string(dres)
    /\ dphase' = "printed"
    /\ UNCHANGED <<dstr, dres, dexp, hvars, jvars, cvars>>

NextDesc == ParseDescriptor \/ PrintDescriptor

SpecDesc == InitDesc /\ [][NextDesc]_vars

\* C1: every well-formed method descriptor string parses, to the params and
\* return value its derivation has, and to_string() of the result is the
\* string itself.
C1_RoundTrip ==
    dexp.wf =>
        /\ dphase \in {"parsed", "printed"} =>
             /\ dres.ok
             /\ dres.params = dexp.params
             /\ dres.return_value = dexp.return_value
        /\ dphase = "printed" => dout = dstr

\* the descriptor ([I)V was parsed, to one parameter that is an array of int,
\* and printed
C1_Witness ==
    /\ dphase = "printed"
    /\ dstr = <<"(", "[", "I", ")", "V">>
    /\ dexp.wf
    /\ dres.params = << <<"ArrReference", <<"Int">> >> >>
    /\ dout = dstr

===========================================================================
